---------------------------- MODULE Spec2Model ----------------------------
(***************************************************************************)
(* Model of the interactive fractal generator (app.js, fractals.js,        *)
(* complexlite.js and the colour utility library colorutils.js).           *)
(*                                                                         *)
(* Numbers.  JavaScript numbers are IEEE doubles.  The escape-time         *)
(* iteration is modelled in fixed point: a plane coordinate is an integer  *)
(* count of 1/FSCALE units and every product is rounded back to that unit, *)
(* so that, as with doubles, orbits live in a finite set of values and the *)
(* exact equality test of the periodicity check can fire.  Where doubles   *)
(* reach 1.8e308, a fixed-point magnitude is held at FMAX: a product that  *)
(* would pass it yields FMAX, and a complex product with such a factor     *)
(* yields FMAX in both parts, so that an overflown orbit stays beyond any  *)
(* bailout radius, as a huge double does.                                  *)
(***************************************************************************)
EXTENDS Integers, Sequences, FiniteSets, TLC

RECURSIVE dispatch(_, _)

(***************************************************************************)
(* Program constants of fractals.js                                        *)
(***************************************************************************)
MANDELBROT == 0
JULIA == 1
STANDARD == 0
BURNING_SHIP == 1
TRICORN == 2
MINITERM == 100
MINITERJ == 200

(***************************************************************************)
(* Bounds of the model                                                     *)
(***************************************************************************)
\* fixed-point resolution of plane coordinates: one unit is 1/FSCALE
FSCALE == 8
\* largest iteration cap handed to fractal() in the pure-function checks
MaxIterBound == 45
\* largest fixed-point magnitude
FMAX == 134217728

Abs(a) == IF a < 0 THEN -a ELSE a

\* the product a*b leaves the fixed-point range
Clamps(a, b) == a # 0 /\ b # 0 /\ Abs(b) > (FMAX * FSCALE) \div Abs(a)

\* fixed-point product a*b, rounded down to the unit
FMul(a, b) ==
    IF Clamps(a, b) THEN (IF (a < 0) = (b < 0) THEN FMAX ELSE -FMAX)
    ELSE (a * b) \div FSCALE

\* the value of a JavaScript variable that was declared but never assigned
Undefined == -1

(***************************************************************************)
(* complexlite.js                                                          *)
(***************************************************************************)
\* z times w for fixed-point complex numbers
CMul(z, w) ==
    IF Clamps(z.re, w.re) \/ Clamps(z.im, w.im)
          \/ Clamps(z.re, w.im) \/ Clamps(z.im, w.re)
    THEN [re |-> FMAX, im |-> FMAX]
    ELSE [re |-> FMul(z.re, w.re) - FMul(z.im, w.im),
          im |-> FMul(z.re, w.im) + FMul(z.im, w.re)]

\* the polar branch of fractal(): r = |z|^n, theta = n*arg(z), then back to
\* cartesian form, i.e. z to the n-th power, computed by n fixed-point
\* complex products
RECURSIVE zpow(_, _)
zpow(z, n) ==
    IF n <= 0 THEN [re |-> FSCALE, im |-> 0]
    ELSE CMul(zpow(z, n - 1), z)

(***************************************************************************)
(* fractals.js : fractal(c, cj, n, maxiter, radius, mode, variant)         *)
(*                                                                         *)
(* fractalLoop is the for loop; its argument s holds the local variables   *)
(* i, zre, zim, za, lastre, lastim, per.  radius is the squared bailout    *)
(* radius in units of 1/FSCALE.                                            *)
(***************************************************************************)
\* variant pre-transform at the top of the loop body
variantZ(zre, zim, variant) ==
    IF variant = BURNING_SHIP THEN [re |-> Abs(zre), im |-> -Abs(zim)]
    ELSE IF variant = TRICORN THEN [re |-> zre, im |-> -zim]
    ELSE [re |-> zre, im |-> zim]

\* za > radius : the bailout test
bailoutBug(za, radius) == za >= radius
bailout(za, radius) == za > radius

\* z = z^n + c
updateZ(z, n, cre, cim) ==
    IF n = 2
    THEN [re |-> FMul(z.re, z.re) - FMul(z.im, z.im) + cre,
          im |-> 2 * FMul(z.re, z.im) + cim]
    ELSE LET p == zpow(z, n) IN [re |-> p.re + cre, im |-> p.im + cim]

RECURSIVE fractalLoop(_, _, _, _, _, _, _)
fractalLoop(s, cre, cim, n, maxiter, radius, variant) ==
    IF ~(s.i < maxiter) THEN [i |-> s.i, za |-> s.za]
    ELSE
      LET z  == variantZ(s.zre, s.zim, variant)
          za == FMul(z.re, z.re) + FMul(z.im, z.im)
      IN  IF bailout(za, radius) THEN [i |-> s.i, za |-> za]
          ELSE
            LET w == updateZ(z, n, cre, cim)
            IN  IF w.re = s.lastre /\ w.im = s.lastim
                THEN [i |-> maxiter, za |-> za]
                ELSE
                  LET per == s.per + 1
                  IN  fractalLoop(
                        [i |-> s.i + 1, zre |-> w.re, zim |-> w.im, za |-> za,
                         lastre |-> IF per > 20 THEN w.re ELSE s.lastre,
                         lastim |-> IF per > 20 THEN w.im ELSE s.lastim,
                         per |-> IF per > 20 THEN 0 ELSE per],
                        cre, cim, n, maxiter, radius, variant)

fractalBody(c, cj, n, maxiter, radius, mode, variant) ==
    LET cre == IF mode = JULIA THEN cj.re ELSE c.re
        cim == IF mode = JULIA THEN cj.im ELSE c.im
        zre == IF mode = JULIA THEN c.re ELSE 0
        zim == IF mode = JULIA THEN c.im ELSE 0
    IN  fractalLoop([i |-> 0, zre |-> zre, zim |-> zim, za |-> Undefined,
                     lastre |-> 0, lastim |-> 0, per |-> 0],
                    cre, cim, n, maxiter, radius, variant)
fractal(c, cj, n, maxiter, radius, mode, variant) == dispatch("fractal", <<c, cj, n, maxiter, radius, mode, variant>>)

\* the plain escape-time loop: the loop of fractal() without its periodicity
\* check (fractals.js lines 64 to 92); s holds i, zre, zim and za
RECURSIVE plainLoop(_, _, _, _, _, _, _)
plainLoop(s, cre, cim, n, maxiter, radius, variant) ==
    IF ~(s.i < maxiter) THEN [i |-> s.i, za |-> s.za]
    ELSE
      LET z  == variantZ(s.zre, s.zim, variant)
          za == FMul(z.re, z.re) + FMul(z.im, z.im)
      IN  IF bailout(za, radius) THEN [i |-> s.i, za |-> za]
          ELSE
            LET w == updateZ(z, n, cre, cim)
            IN  plainLoop([i |-> s.i + 1, zre |-> w.re, zim |-> w.im,
                           za |-> za],
                          cre, cim, n, maxiter, radius, variant)

(***************************************************************************)
(* JavaScript numbers outside the iteration loop.                          *)
(*                                                                         *)
(* A number is NaN, +Infinity, -Infinity or a finite value n/d * 2^e kept  *)
(* in normal form (n and d odd and coprime, d > 0; zero is 0/1 * 2^0), so  *)
(* that equal values are equal records.  Arithmetic on finite values is    *)
(* exact; the non-finite cases follow IEEE 754 as JavaScript does.  The    *)
(* sign of zero is not modelled.                                           *)
(***************************************************************************)
NaN == [k |-> "nan", n |-> 0, d |-> 1, e |-> 0]
PosInf == [k |-> "inf", n |-> 1, d |-> 1, e |-> 0]
NegInf == [k |-> "inf", n |-> -1, d |-> 1, e |-> 0]

RECURSIVE GCD(_, _)
GCD(a, b) == IF b = 0 THEN a ELSE GCD(b, a % b)

\* floor of the binary logarithm of a positive integer
RECURSIVE FLog2(_)
FLog2(a) == IF a <= 1 THEN 0 ELSE 1 + FLog2(a \div 2)

RECURSIVE Pow2(_)
Pow2(k) == IF k <= 0 THEN 1 ELSE 2 * Pow2(k - 1)

\* number of factors two of a non-zero integer
RECURSIVE Twos(_)
Twos(a) == IF a % 2 = 0 THEN 1 + Twos(a \div 2) ELSE 0

\* the finite number n/d * 2^e, d # 0, in normal form
NormBody(n, d, e) ==
    IF n = 0 THEN [k |-> "fin", n |-> 0, d |-> 1, e |-> 0]
    ELSE LET sn == IF d < 0 THEN -n ELSE n
             sd == Abs(d)
             g  == GCD(Abs(sn), sd)
             n1 == sn \div g
             d1 == sd \div g
             a  == Twos(Abs(n1))
             b  == Twos(d1)
         IN  [k |-> "fin", n |-> (IF n1 < 0 THEN -(Abs(n1) \div Pow2(a))
                                            ELSE n1 \div Pow2(a)),
              d |-> d1 \div Pow2(b), e |-> e + a - b]
Norm(n, d, e) == dispatch("Norm", <<n, d, e>>)

\* the integer a, and the fraction a/b
NInt(a) == Norm(a, 1, 0)
NFrac(a, b) == Norm(a, b, 0)

IsFinite(x) == x.k = "fin"
IsNaN(x) == x.k = "nan"
Sign(x) == IF x.n > 0 THEN 1 ELSE IF x.n < 0 THEN -1 ELSE 0

NNeg(x) == IF x.k = "nan" THEN NaN ELSE [x EXCEPT !.n = -x.n]

NMulBody(x, y) ==
    IF x.k = "nan" \/ y.k = "nan" THEN NaN
    ELSE IF x.k = "inf" \/ y.k = "inf"
         THEN IF Sign(x) * Sign(y) = 0 THEN NaN
              ELSE IF Sign(x) * Sign(y) > 0 THEN PosInf ELSE NegInf
         ELSE Norm(x.n * y.n, x.d * y.d, x.e + y.e)
NMul(x, y) == dispatch("NMul", <<x, y>>)

NDivBody(x, y) ==
    IF x.k = "nan" \/ y.k = "nan" THEN NaN
    ELSE IF x.k = "inf"
         THEN IF y.k = "inf" THEN NaN
              ELSE IF Sign(x) * Sign(y) < 0 THEN NegInf ELSE PosInf
         ELSE IF y.k = "inf" THEN NInt(0)
              ELSE IF y.n = 0
                   THEN IF x.n = 0 THEN NaN
                        ELSE IF x.n > 0 THEN PosInf ELSE NegInf
                   ELSE Norm(x.n * y.d, x.d * y.n, x.e - y.e)
NDiv(x, y) == dispatch("NDiv", <<x, y>>)

\* The sum of two finite numbers is exact as long as its terms stay within
\* the integers of the checker.  Beyond that, as an addition of floating
\* point numbers does, it cuts both operands to a common unit below the
\* larger one (rounding down) and adds them there.
IntMax == Pow2(30) - 1 + Pow2(30)
Fits(a, b) == a = 0 \/ Abs(b) <= IntMax \div Abs(a)
ExactSumFits(x, y, em) ==
    /\ x.e - em <= 30 /\ y.e - em <= 30
    /\ Fits(x.n, Pow2(x.e - em)) /\ Fits(x.n * Pow2(x.e - em), y.d)
    /\ Fits(y.n, Pow2(y.e - em)) /\ Fits(y.n * Pow2(y.e - em), x.d)
    /\ Abs(x.n * Pow2(x.e - em) * y.d)
          <= IntMax - Abs(y.n * Pow2(y.e - em) * x.d)
    /\ Fits(x.d, y.d)
\* floor(x / 2^unit) for a finite x of at most bits + unit binary digits
CutTo(x, unit) ==
    LET k == x.e - unit
    IN  IF k >= 0 THEN (x.n * Pow2(k)) \div x.d
        ELSE IF -k > 30 THEN (IF x.n < 0 THEN -1 ELSE 0)
        ELSE (x.n \div Pow2(-k)) \div x.d
RoundedSum(x, y) ==
    LET mag(z) == z.e + FLog2(Abs(z.n)) - FLog2(z.d)
        top  == IF mag(x) > mag(y) THEN mag(x) ELSE mag(y)
        dmax == IF x.d > y.d THEN x.d ELSE y.d
        unit == top - (26 - FLog2(dmax))
    IN  Norm(CutTo(x, unit) + CutTo(y, unit), 1, unit)
NAddBody(x, y) ==
    IF x.k = "nan" \/ y.k = "nan" THEN NaN
    ELSE IF x.k = "inf"
         THEN IF y.k = "inf" /\ y.n # x.n THEN NaN ELSE x
         ELSE IF y.k = "inf" THEN y
              ELSE IF x.n = 0 THEN y
              ELSE IF y.n = 0 THEN x
              ELSE LET em == IF x.e < y.e THEN x.e ELSE y.e
                   IN  IF ExactSumFits(x, y, em)
                       THEN Norm(x.n * Pow2(x.e - em) * y.d
                                   + y.n * Pow2(y.e - em) * x.d,
                                 x.d * y.d, em)
                       ELSE RoundedSum(x, y)
NAdd(x, y) == dispatch("NAdd", <<x, y>>)

NSubBody(x, y) == NAdd(x, NNeg(y))
NSub(x, y) == dispatch("NSub", <<x, y>>)

\* x < y ; any comparison with NaN is false
NLessBody(x, y) ==
    IF x.k = "nan" \/ y.k = "nan" THEN FALSE
    ELSE IF x.k = "inf" THEN x.n < 0 /\ ~(y.k = "inf" /\ y.n < 0)
         ELSE IF y.k = "inf" THEN y.n > 0
              ELSE Sign(NSub(x, y)) < 0
NLess(x, y) == dispatch("NLess", <<x, y>>)

\* Math.floor of a finite number, as an integer
NFloorBody(x) ==
    IF x.e >= 0 THEN (x.n * Pow2(x.e)) \div x.d
    ELSE x.n \div (x.d * Pow2(-x.e))
NFloor(x) == dispatch("NFloor", <<x>>)

\* Math.ceil of a finite number, as an integer
NCeilBody(x) == -NFloor(NNeg(x))
NCeil(x) == dispatch("NCeil", <<x>>)

\* the integer part of a finite number, rounded towards zero (parseInt)
NTruncBody(x) == IF x.n < 0 THEN NCeil(x) ELSE NFloor(x)
NTrunc(x) == dispatch("NTrunc", <<x>>)

\* x % 1 : the remainder takes the sign of x
NRem1Body(x) == IF x.k # "fin" THEN NaN ELSE NSub(x, NInt(NTrunc(x)))
NRem1(x) == dispatch("NRem1", <<x>>)

\* a % b for integers, JavaScript's remainder (sign of the dividend), b > 0
JSRem(a, b) == IF a < 0 THEN -((-a) % b) ELSE a % b

(***************************************************************************)
(* colorutils.js                                                           *)
(***************************************************************************)
\* what a function "returns" when it ends with an uncaught exception
TypeError == [exception |-> "TypeError"]
ReferenceError == [exception |-> "ReferenceError"]
IsThrow(v) == v \in {TypeError, ReferenceError}

\* a palette slot for which HextoRGB returned null, and a missing array
Null == <<>>

White == [r |-> 255, g |-> 255, b |-> 255, a |-> 255]
Black == [r |-> 0, g |-> 0, b |-> 0, a |-> 255]

\* interpolate as it would be if the colour it builds carried no alpha (the
\* typed array of the image data stores an undefined channel as 0)
interpolateNoAlpha(col1, col2, ni) ==
    LET f == NRem1(ni)
        ch(c1, c2) == NFloor(NAdd(NMul(NInt(c2 - c1), f), NInt(c1)))
    IN  [r |-> ch(col1.r, col2.r), g |-> ch(col1.g, col2.g),
         b |-> ch(col1.b, col2.b), a |-> Undefined]
\* interpolate(col1, col2, ni): ni is a finite number
interpolateBody(col1, col2, ni) ==
    LET f == NRem1(ni)
        ch(c1, c2) == NFloor(NAdd(NMul(NInt(c2 - c1), f), NInt(c1)))
    IN  [r |-> ch(col1.r, col2.r), g |-> ch(col1.g, col2.g),
         b |-> ch(col1.b, col2.b), a |-> 255]
interpolate(col1, col2, ni) == dispatch("interpolate", <<col1, col2, ni>>)

\* the identifier scalars in getColormap's catch block: it is neither a
\* parameter of getColormap nor a global, so reading it throws
ScalarsInScope == FALSE

\* the catch block of getColormap: its result and what it writes to the log
getColormapCatch ==
    IF ScalarsInScope
    THEN [value |-> White, log |-> <<"getColormap error:">>]
    ELSE [value |-> ReferenceError, log |-> <<>>]

\* colmap[idx] for an index computed with %: undefined (here Null) unless
\* idx is one of 0 .. length-1
colmapAt(colmap, idx) ==
    IF idx >= 0 /\ idx < Len(colmap) THEN colmap[idx + 1] ELSE Null

\* getColormap(ni, colmap, shift, interp): shift is the numeric value of the
\* shift, interp is 0 or 1.  The result is [value, log].
getColormapBody(ni, colmap, shift, interp) ==
    IF colmap = Null \/ ~IsFinite(ni) THEN getColormapCatch
    ELSE
      LET len == Len(colmap)
          sh  == NCeil(NFrac(shift * len, 100))
          fl  == NFloor(ni)
          ca  == IF len = 0 THEN Null
                 ELSE colmapAt(colmap, JSRem(fl + sh, len))
          cb  == IF len = 0 THEN Null
                 ELSE colmapAt(colmap, JSRem(fl + sh + 1, len))
      IN  IF ca = Null THEN getColormapCatch
          ELSE LET col1 == [r |-> ca[1], g |-> ca[2], b |-> ca[3], a |-> 255]
               IN  IF interp = 0 THEN [value |-> col1, log |-> <<>>]
                   ELSE IF cb = Null THEN getColormapCatch
                   ELSE [value |->
                           interpolate(col1,
                             [r |-> cb[1], g |-> cb[2], b |-> cb[3], a |-> 255],
                             ni),
                         log |-> <<>>]
getColormap(ni, colmap, shift, interp) == dispatch("getColormap", <<ni, colmap, shift, interp>>)

\* the loop of makeColormap from index i on; fi is the running fraction
\* the exclusive upper end of the loop index: for (i = 0; i < levels; i += 1)
loopEndBug(levels) == levels + 1
loopEnd(levels) == levels

\* one pass through the loop body of makeColormap with index i; st holds the
\* locals cmap and fi, and threw once an entry that is null was indexed
makeColormapPassBody(palette, levels, shift, st, i) ==
    IF st.threw THEN st
    ELSE
      LET clen == Len(palette)
          cidx == NFloor(NAdd(NFrac(i, clen), NInt(shift)))
          ca   == palette[JSRem(cidx, clen) + 1]
          cb   == palette[JSRem(cidx + 1, clen) + 1]
      IN  IF ca = Null \/ cb = Null THEN [st EXCEPT !.threw = TRUE]
          ELSE
            LET col == interpolate([r |-> ca[1], g |-> ca[2], b |-> ca[3]],
                                   [r |-> cb[1], g |-> cb[2], b |-> cb[3]],
                                   st.fi)
            IN  [threw |-> FALSE,
                 cmap |-> Append(st.cmap, <<col.r, col.g, col.b>>),
                 fi |-> NRem1(NAdd(st.fi, NFrac(clen, levels)))]
makeColormapPass(palette, levels, shift, st, i) == dispatch("makeColormapPass", <<palette, levels, shift, st, i>>)

\* the passes with index lo .. hi-1 in order (split in halves to keep the
\* evaluation shallow)
RECURSIVE makeColormapLoop(_, _, _, _, _, _)
makeColormapLoop(palette, levels, shift, st, lo, hi) ==
    IF hi <= lo THEN st
    ELSE IF hi = lo + 1 THEN makeColormapPass(palette, levels, shift, st, lo)
    ELSE LET mid  == (lo + hi) \div 2
             left == makeColormapLoop(palette, levels, shift, st, lo, mid)
         IN  IF left.threw THEN left
             ELSE makeColormapLoop(palette, levels, shift, left, mid, hi)

\* the early return of makeColormap: no gradient is built
noExpansion(clen, levels) == clen >= levels

\* makeColormap(palette, levels, shift): value is the gradient returned;
\* threw tells that the call ended with a TypeError instead (a palette entry
\* that is null was indexed)
makeColormapBody(palette, levels, shift) ==
    IF noExpansion(Len(palette), levels)
    THEN [threw |-> FALSE, value |-> palette]
    ELSE LET st == makeColormapLoop(palette, levels, shift,
                       [threw |-> FALSE, cmap |-> <<>>, fi |-> NInt(0)],
                       0, loopEnd(levels))
         IN  IF st.threw THEN [threw |-> TRUE, value |-> <<>>]
             ELSE [threw |-> FALSE, value |-> st.cmap]
makeColormap(palette, levels, shift) == dispatch("makeColormap", <<palette, levels, shift>>)

\* the key-colour palettes of colorutils.js
COLORMAP_BB16 ==
    <<<<66, 30, 15>>, <<25, 7, 26>>, <<9, 1, 47>>, <<4, 4, 73>>,
      <<0, 7, 100>>, <<12, 44, 138>>, <<24, 82, 177>>, <<57, 125, 209>>,
      <<134, 181, 229>>, <<211, 236, 248>>, <<241, 233, 191>>, <<248, 201, 95>>,
      <<255, 170, 0>>, <<204, 128, 0>>, <<153, 87, 0>>, <<106, 52, 3>>>>

COLORMAP_TROP16 ==
    <<<<3, 72, 0>>, <<24, 111, 10>>, <<51, 147, 22>>, <<219, 188, 47>>,
      <<240, 131, 42>>, <<243, 61, 33>>, <<217, 66, 40>>, <<191, 71, 46>>,
      <<134, 81, 80>>, <<126, 78, 186>>, <<125, 92, 254>>, <<140, 155, 251>>,
      <<162, 246, 245>>, <<112, 225, 91>>, <<100, 186, 44>>, <<93, 12, 70>>>>

COLORMAP_CET16 ==
    <<<<26, 99, 229>>, <<97, 122, 230>>, <<149, 156, 230>>, <<191, 192, 229>>,
      <<223, 213, 217>>, <<231, 181, 168>>, <<226, 136, 112>>, <<213, 88, 59>>,
      <<202, 48, 23>>, <<213, 86, 57>>, <<225, 134, 110>>, <<231, 179, 165>>,
      <<221, 210, 216>>, <<186, 187, 229>>, <<143, 151, 230>>, <<88, 118, 230>>>>

COLORMAP_HSV256 ==
    <<<<226, 56, 41>>, <<237, 50, 35>>, <<233, 52, 35>>, <<234, 54, 37>>,
      <<234, 55, 35>>, <<236, 57, 37>>, <<234, 60, 36>>, <<236, 62, 37>>,
      <<235, 66, 37>>, <<235, 70, 38>>, <<235, 76, 37>>, <<236, 80, 40>>,
      <<235, 84, 41>>, <<235, 89, 42>>, <<237, 93, 41>>, <<236, 97, 42>>,
      <<235, 102, 43>>, <<237, 107, 45>>, <<237, 112, 45>>, <<238, 117, 46>>,
      <<238, 122, 45>>, <<239, 128, 47>>, <<239, 132, 50>>, <<239, 137, 52>>,
      <<240, 142, 51>>, <<240, 150, 54>>, <<242, 154, 56>>, <<242, 159, 57>>,
      <<243, 165, 57>>, <<241, 171, 59>>, <<242, 175, 62>>, <<243, 181, 62>>,
      <<244, 186, 63>>, <<245, 192, 64>>, <<246, 197, 68>>, <<245, 203, 67>>,
      <<246, 209, 68>>, <<247, 215, 72>>, <<249, 219, 73>>, <<250, 224, 75>>,
      <<251, 230, 75>>, <<252, 240, 78>>, <<252, 244, 81>>, <<251, 248, 81>>,
      <<249, 251, 82>>, <<248, 254, 84>>, <<245, 254, 83>>, <<238, 254, 83>>,
      <<235, 254, 84>>, <<230, 254, 82>>, <<224, 254, 81>>, <<220, 254, 80>>,
      <<215, 253, 80>>, <<211, 253, 81>>, <<206, 254, 82>>, <<205, 253, 81>>,
      <<199, 253, 81>>, <<195, 253, 80>>, <<190, 252, 79>>, <<186, 253, 78>>,
      <<183, 253, 79>>, <<178, 252, 77>>, <<174, 252, 80>>, <<170, 252, 79>>,
      <<165, 251, 78>>, <<162, 252, 77>>, <<159, 251, 78>>, <<154, 252, 77>>,
      <<152, 252, 78>>, <<148, 252, 77>>, <<145, 252, 76>>, <<142, 252, 77>>,
      <<140, 252, 79>>, <<138, 252, 78>>, <<134, 253, 77>>, <<130, 253, 77>>,
      <<128, 251, 75>>, <<127, 251, 77>>, <<124, 251, 76>>, <<123, 251, 76>>,
      <<122, 250, 75>>, <<120, 251, 77>>, <<120, 251, 77>>, <<119, 252, 75>>,
      <<118, 251, 74>>, <<118, 251, 76>>, <<117, 251, 76>>, <<117, 251, 78>>,
      <<117, 251, 78>>, <<117, 251, 78>>, <<117, 251, 78>>, <<115, 251, 79>>,
      <<119, 252, 85>>, <<118, 251, 84>>, <<116, 251, 87>>, <<116, 251, 87>>,
      <<117, 251, 92>>, <<117, 251, 94>>, <<117, 250, 97>>, <<117, 251, 102>>,
      <<117, 250, 105>>, <<118, 251, 108>>, <<116, 251, 112>>, <<116, 250, 115>>,
      <<117, 250, 122>>, <<116, 250, 125>>, <<117, 251, 130>>, <<118, 249, 133>>,
      <<117, 251, 140>>, <<118, 251, 144>>, <<118, 250, 148>>, <<117, 251, 154>>,
      <<117, 252, 160>>, <<117, 251, 166>>, <<118, 251, 170>>, <<116, 251, 174>>,
      <<117, 251, 180>>, <<117, 252, 186>>, <<117, 251, 190>>, <<118, 251, 196>>,
      <<117, 251, 201>>, <<118, 251, 204>>, <<116, 251, 210>>, <<117, 251, 218>>,
      <<118, 251, 224>>, <<117, 251, 226>>, <<118, 251, 234>>, <<116, 251, 237>>,
      <<117, 251, 244>>, <<117, 250, 247>>, <<116, 250, 253>>, <<115, 246, 255>>,
      <<113, 239, 253>>, <<108, 233, 253>>, <<106, 228, 251>>, <<101, 222, 251>>,
      <<99, 215, 252>>, <<98, 211, 251>>, <<96, 204, 250>>, <<92, 199, 251>>,
      <<90, 195, 252>>, <<85, 187, 251>>, <<84, 183, 251>>, <<80, 176, 252>>,
      <<78, 171, 249>>, <<76, 165, 249>>, <<68, 155, 250>>, <<67, 150, 246>>,
      <<64, 143, 248>>, <<60, 138, 247>>, <<60, 132, 250>>, <<55, 127, 247>>,
      <<52, 120, 245>>, <<50, 114, 246>>, <<47, 109, 246>>, <<45, 103, 246>>,
      <<42, 98, 247>>, <<38, 91, 245>>, <<36, 86, 245>>, <<32, 79, 245>>,
      <<31, 75, 244>>, <<27, 70, 245>>, <<24, 64, 247>>, <<23, 58, 246>>,
      <<19, 53, 246>>, <<15, 47, 244>>, <<13, 39, 246>>, <<10, 34, 246>>,
      <<8, 28, 245>>, <<7, 22, 247>>, <<4, 18, 247>>, <<3, 13, 248>>,
      <<4, 11, 247>>, <<6, 7, 247>>, <<6, 2, 245>>, <<8, 0, 244>>,
      <<14, 0, 246>>, <<19, 1, 247>>, <<25, 0, 246>>, <<30, 0, 246>>,
      <<35, 1, 245>>, <<44, 3, 247>>, <<51, 3, 247>>, <<54, 5, 245>>,
      <<59, 6, 246>>, <<65, 6, 246>>, <<72, 8, 245>>, <<75, 11, 247>>,
      <<81, 11, 247>>, <<86, 12, 247>>, <<93, 14, 247>>, <<97, 15, 247>>,
      <<103, 18, 244>>, <<109, 18, 246>>, <<114, 19, 247>>, <<118, 21, 248>>,
      <<123, 23, 245>>, <<129, 23, 247>>, <<135, 25, 244>>, <<142, 26, 249>>,
      <<147, 27, 246>>, <<152, 28, 246>>, <<157, 31, 245>>, <<164, 31, 246>>,
      <<167, 32, 246>>, <<173, 34, 247>>, <<178, 36, 246>>, <<184, 37, 247>>,
      <<190, 38, 247>>, <<193, 40, 245>>, <<200, 41, 247>>, <<204, 43, 245>>,
      <<211, 44, 246>>, <<216, 45, 247>>, <<219, 47, 245>>, <<227, 49, 245>>,
      <<229, 49, 244>>, <<232, 49, 238>>, <<233, 51, 232>>, <<234, 51, 231>>,
      <<234, 50, 224>>, <<234, 51, 219>>, <<233, 51, 213>>, <<234, 50, 208>>,
      <<234, 51, 203>>, <<234, 50, 196>>, <<236, 50, 193>>, <<235, 50, 187>>,
      <<234, 50, 180>>, <<235, 51, 175>>, <<234, 51, 169>>, <<233, 50, 164>>,
      <<234, 51, 159>>, <<235, 50, 151>>, <<235, 51, 149>>, <<234, 51, 143>>,
      <<236, 49, 136>>, <<236, 50, 133>>, <<235, 50, 126>>, <<235, 51, 121>>,
      <<234, 51, 117>>, <<234, 50, 110>>, <<234, 51, 105>>, <<237, 49, 100>>,
      <<234, 51, 95>>, <<235, 50, 91>>, <<234, 51, 82>>, <<235, 51, 79>>,
      <<237, 49, 73>>, <<236, 51, 67>>, <<235, 51, 63>>, <<235, 51, 59>>,
      <<234, 51, 55>>, <<235, 51, 51>>, <<234, 51, 47>>, <<235, 50, 45>>>>

\* var palettes at load time
palettesInit == <<COLORMAP_BB16, COLORMAP_TROP16, COLORMAP_CET16>>

(***************************************************************************)
(* Math.log, Math.sqrt and Math.sin.                                       *)
(*                                                                         *)
(* The transcendental functions are evaluated to a fixed resolution: the   *)
(* binary logarithm is exact at the powers of two and linear in between,   *)
(* with the mantissa cut to 1/LPREC; the square root is cut to 1/SPREC and *)
(* the sine is the parabola through the zeros and the peak of each half    *)
(* wave.  They keep the sign, the zeros, the monotonicity and the          *)
(* non-finite cases of the functions they stand for.                       *)
(***************************************************************************)
LPREC == 64
SPREC == 16
LBITS == 20
\* ln 2 and pi to that resolution
LN2 == Norm(11, 16, 0)
PI == Norm(201, 64, 0)

\* binary logarithm of a finite number x > 0
Log2Body(x) ==
    LET \* numerator and denominator cut to LBITS binary digits
        sn == IF FLog2(x.n) > LBITS THEN FLog2(x.n) - LBITS ELSE 0
        sd == IF FLog2(x.d) > LBITS THEN FLog2(x.d) - LBITS ELSE 0
        n  == x.n \div Pow2(sn)
        d  == x.d \div Pow2(sd)
        k0 == FLog2(n) - FLog2(d)
        k  == IF n * Pow2(-k0) >= d * Pow2(k0) THEN k0 ELSE k0 - 1
        \* mantissa minus one, in 1/LPREC
        m  == (n * LPREC * Pow2(-k)) \div (d * Pow2(k)) - LPREC
    IN  NAdd(NInt(x.e + sn - sd + k), NFrac(m, LPREC))
Log2(x) == dispatch("Log2", <<x>>)

\* Math.log(x)
LnBody(x) ==
    IF x.k = "nan" THEN NaN
    ELSE IF x.k = "inf" THEN (IF x.n > 0 THEN PosInf ELSE NaN)
    ELSE IF x.n < 0 THEN NaN
    ELSE IF x.n = 0 THEN NegInf
    ELSE NMul(LN2, Log2(x))
Ln(x) == dispatch("Ln", <<x>>)

\* floor of the square root of a natural number
RECURSIVE ISqrt(_, _)
ISqrt(a, r) == IF (r + 1) * (r + 1) > a THEN r ELSE ISqrt(a, r + 1)

\* Math.sqrt of an integer (NaN for a negative one)
SqrtIntBody(a) ==
    IF a < 0 THEN NaN
    ELSE LET r == ISqrt(a, 0)
         IN  NAdd(NInt(r), NFrac(((a - r * r) * SPREC) \div (2 * r + 1), SPREC))
SqrtInt(a) == dispatch("SqrtInt", <<a>>)

\* Math.sin(x)
SinBody(x) ==
    IF x.k # "fin" THEN NaN
    ELSE LET t  == NDiv(x, PI)             \* half waves
             ft == NFloor(t)
             u  == NFrac(NFloor(NMul(NSub(t, NInt(ft)), NInt(SPREC))), SPREC)
             s  == NMul(NInt(4), NMul(u, NSub(NInt(1), u)))
         IN  IF ft % 2 = 0 THEN s ELSE NNeg(s)
Sin(x) == dispatch("Sin", <<x>>)

\* parseInt of a number: the integer part, NaN for a non-finite number
\* (numbers are not small or large enough to print in exponent notation)
parseInt(x) == IF x.k # "fin" THEN NaN ELSE NInt(NTrunc(x))

\* x % m for a number x and an integer m > 0 (sign of the dividend)
NRemBody(x, m) ==
    IF x.k # "fin" THEN NaN
    ELSE NSub(x, NInt(m * NTrunc(NDiv(x, NInt(m)))))
NRem(x, m) == dispatch("NRem", <<x, m>>)

(***************************************************************************)
(* fractals.js : normalize and getAutoiter                                 *)
(***************************************************************************)
\* the iteration cap is an integer, or NaN
MaxiterNaN == -1000000
IterNum(m) == IF m = MaxiterNaN THEN NaN ELSE NInt(m)

\* normalize(scalars, radius, exponent): scalars.za is a number (NaN when
\* za was never assigned)
normalizeBody(scalars, radius, exponent) ==
    LET lzn == NMul(Ln(scalars.za), NInt(2))
        nu  == NDiv(Ln(NDiv(lzn, Ln(NInt(radius)))), Ln(NInt(exponent)))
    IN  NSub(NInt(scalars.i + 1), nu)
normalize(scalars, radius, exponent) == dispatch("normalize", <<scalars, radius, exponent>>)

(***************************************************************************)
(* colorutils.js : hsv2rgb                                                 *)
(***************************************************************************)
\* hsv2rgb(h, s, v); v is 0 or 1 in every call
hsv2rgbBody(h, s, v) ==
    LET a   == 255
        v0  == NTrunc(v)
        v1  == NTrunc(NMul(v, NInt(255)))
        i0  == parseInt(NMul(h, NInt(6)))
        f   == NSub(NMul(h, NInt(6)), i0)
        one == NInt(1)
        p   == NTrunc(NMul(NInt(v1), NSub(one, s)))
        q   == NTrunc(NMul(NInt(v1), NSub(one, NMul(s, f))))
        t   == NTrunc(NMul(NInt(v1), NSub(one, NMul(s, NSub(one, f)))))
        i   == IF i0.k = "fin" THEN JSRem(NTrunc(i0), 6) ELSE -1
    IN  IF s = NInt(0) THEN [r |-> v0, g |-> v0, b |-> v0, a |-> a]
        ELSE CASE i = 0 -> [r |-> v1, g |-> t, b |-> p, a |-> a]
               [] i = 1 -> [r |-> q, g |-> v1, b |-> p, a |-> a]
               [] i = 2 -> [r |-> p, g |-> v1, b |-> t, a |-> a]
               [] i = 3 -> [r |-> p, g |-> q, b |-> v1, a |-> a]
               [] i = 4 -> [r |-> t, g |-> p, b |-> v1, a |-> a]
               [] i = 5 -> [r |-> v1, g |-> p, b |-> q, a |-> a]
               [] OTHER -> [r |-> v1, g |-> v1, b |-> v1, a |-> a]
hsv2rgb(h, s, v) == dispatch("hsv2rgb", <<h, s, v>>)

(***************************************************************************)
(* app.js : getColor                                                       *)
(***************************************************************************)
THEMES ==
    <<"Blue/Brown Cyclic 256", "Tropical Cyclic 256", "CET4s Cyclic 256",
      "Rainbow Cyclic 256", "Basic Hue", "Normalized Hue", "Sqrt Maxiter Hue",
      "Sin Sqrt Maxiter Hue", "Grayscale", "2-Color">>
STATICTHEMES == Len(THEMES) - 3

\* a colour channel that holds NaN
NaNChan == -100000

\* the shift is a number, or after Apply the string of an integer 0..100;
\* v is its numeric value
ShiftNum(v) == [str |-> FALSE, v |-> v]
ShiftStr(v) == [str |-> TRUE, v |-> v]

\* number of decimal digits of a natural number
RECURSIVE Digits(_)
Digits(a) == IF a < 10 THEN 1 ELSE 1 + Digits(a \div 10)

RECURSIVE Pow10(_)
Pow10(k) == IF k <= 0 THEN 1 ELSE 10 * Pow10(k - 1)

\* x + shift : a sum for a numeric shift; for a string shift the digits of
\* the shift are appended to the decimal form of x, which changes the
\* integer part only when x is an integer
plusShiftBody(x, shift) ==
    IF ~shift.str THEN NAdd(x, NInt(shift.v))
    ELSE IF x.k # "fin" THEN NaN
    ELSE IF x = NInt(NFloor(x))
         THEN LET m == Pow10(Digits(shift.v))
              IN  NInt(IF x.n < 0 THEN NFloor(x) * m - shift.v
                                  ELSE NFloor(x) * m + shift.v)
         ELSE x
plusShift(x, shift) == dispatch("plusShift", <<x, shift>>)

\* colmaps[idx], undefined (Null) outside the array
colmapsAt(colmaps, idx) ==
    IF idx >= 0 /\ idx < Len(colmaps) THEN colmaps[idx + 1] ELSE Null

\* the first statement of getColor: bound points are black
boundBlackBug(scalars, maxiter, theme) == scalars.i = maxiter /\ theme < 9
boundBlack(scalars, maxiter, theme) == scalars.i = maxiter /\ theme # 9

\* getColor(scalars, maxiter, theme, shift) with the variables of start() it
\* reads.  value is the colour returned or the exception thrown, log what
\* was written to the console, normalized the arguments of the calls of
\* normalize.
getColorBody(scalars, maxiter, theme, shift, radius, exponent, colmaps, interp) ==
    IF boundBlack(scalars, maxiter, theme)
    THEN [value |-> Black, log |-> <<>>, normalized |-> <<>>]
    ELSE
      LET ni   == normalize(scalars, radius, exponent)
          mi   == IterNum(maxiter)
          sh   == NFrac(shift.v, 100)
          hue(h) == [value |-> hsv2rgb(h, NFrac(3, 4), NInt(1)), log |-> <<>>]
          res  ==
            CASE theme = 0 -> getColormap(ni, colmapsAt(colmaps, 0), shift.v, interp)
              [] theme = 1 -> getColormap(ni, colmapsAt(colmaps, 1), shift.v, interp)
              [] theme = 2 -> getColormap(ni, colmapsAt(colmaps, 2), shift.v, interp)
              [] theme = 3 -> getColormap(ni, COLORMAP_HSV256, shift.v, interp)
              [] theme = 4 -> hue(NRem1(NAdd(NDiv(NInt(scalars.i), mi), sh)))
              [] theme = 5 -> hue(NRem1(NAdd(NDiv(ni, mi), sh)))
              [] theme = 6 ->
                   hue(NRem1(NAdd(NDiv(ni, IF maxiter = MaxiterNaN THEN NaN
                                            ELSE SqrtInt(maxiter)), sh)))
              [] theme = 7 ->
                   LET steps == NAdd(NInt(1), sh)
                       x == NAdd(NMul(NDiv(ni, IF maxiter = MaxiterNaN THEN NaN
                                                ELSE SqrtInt(maxiter)), steps),
                                 NInt(1))
                   IN  hue(NSub(NInt(1), NDiv(Sin(x), NInt(2))))
              [] theme = 8 ->
                   LET x == plusShift(NDiv(NMul(NInt(256), ni), mi), shift)
                       h == IF x.k = "fin" THEN JSRem(NFloor(x), 256)
                            ELSE NaNChan
                   IN  [value |-> [r |-> h, g |-> h, b |-> h, a |-> 255],
                        log |-> <<>>]
              [] theme = 9 ->
                   hue(IF scalars.i = maxiter
                       THEN NRem1(NAdd(sh, NFrac(1, 2))) ELSE sh)
              [] OTHER ->
                   getColormap(ni, colmapsAt(colmaps, theme - STATICTHEMES),
                               shift.v, interp)
      IN  [value |-> res.value, log |-> res.log, normalized |-> <<scalars>>]
getColor(scalars, maxiter, theme, shift, radius, exponent, colmaps, interp) == dispatch("getColor", <<scalars, maxiter, theme, shift, radius, exponent, colmaps, interp>>)

(***************************************************************************)
(* fractals.js : ptoc and getAutoiter; the image loop of app.js            *)
(***************************************************************************)
\* ptoc(width, height, x, y, zoffpos, zoom, swap): zoffpos and the result
\* are complex numbers [re, im]; x, y and zoom are numbers
ptocBodyBug(width, height, x, y, zoffpos, zoom, swap) ==
    LET x1 == IF swap THEN y ELSE x
        y1 == IF swap THEN x ELSE y
        re == NAdd(zoffpos.re,
                   NDiv(NMul(NFrac(width, height), NSub(x1, NFrac(width, 2))),
                        NDiv(NMul(zoom, NInt(width)), NInt(2))))
        im == NAdd(zoffpos.im,
                   NDiv(NMul(NInt(-1), NSub(y1, NFrac(height, 2))),
                        NDiv(NMul(zoom, NInt(height)), NInt(2))))
    IN  [re |-> re, im |-> im]
ptocBody(width, height, x, y, zoffpos, zoom, swap) ==
    LET x1 == IF swap THEN y ELSE x
        y1 == IF swap THEN x ELSE y
        w1 == IF swap THEN height ELSE width
        h1 == IF swap THEN width ELSE height
        re == NAdd(zoffpos.re,
                   NDiv(NMul(NFrac(w1, h1), NSub(x1, NFrac(w1, 2))),
                        NDiv(NMul(zoom, NInt(w1)), NInt(2))))
        im == NAdd(zoffpos.im,
                   NDiv(NMul(NInt(-1), NSub(y1, NFrac(h1, 2))),
                        NDiv(NMul(zoom, NInt(h1)), NInt(2))))
    IN  [re |-> re, im |-> im]
ptoc(width, height, x, y, zoffpos, zoom, swap) == dispatch("ptoc", <<width, height, x, y, zoffpos, zoom, swap>>)

\* getAutoiter(zoom, mode).  Math.log(1 / Math.sqrt(zoom)) is -ln(zoom)/2
\* for a finite zoom > 0; for zoom 0, Infinity, NaN or a negative zoom the
\* chain sqrt, 1/x, log, abs yields Infinity or NaN, parseInt yields NaN and
\* so does Math.max
getAutoiterBody(zoom, mode) ==
    LET miniter == IF mode = JULIA THEN MINITERJ ELSE MINITERM
    IN  IF zoom.k # "fin" \/ zoom.n <= 0 THEN MaxiterNaN
        ELSE LET l == NMul(NInt(250), Ln(zoom))
                 a == NTrunc(IF l.n < 0 THEN NNeg(l) ELSE l)
             IN  IF a > miniter THEN a ELSE miniter
getAutoiter(zoom, mode) == dispatch("getAutoiter", <<zoom, mode>>)

\* floor(n * f / d) for d > 0 and a small f > 0, without forming n * f
\* when it leaves the integers of the checker: n = q * d + r, and r * f is
\* added up in f steps modulo d.  MulDivSteps(r, f, d, acc) is
\* floor((r * f + acc) / d) for 0 <= r, acc < d.
RECURSIVE MulDivSteps(_, _, _, _)
MulDivSteps(r, f, d, acc) ==
    IF f = 0 THEN 0
    ELSE IF acc >= d - r THEN 1 + MulDivSteps(r, f - 1, d, acc - (d - r))
    ELSE MulDivSteps(r, f - 1, d, acc + r)
MulDiv(n, f, d) ==
    IF Fits(n, f) THEN (n * f) \div d
    ELSE (n \div d) * f + MulDivSteps(n % d, f, d, 0)

\* a finite number as a fixed-point coordinate
toFixedBody(x) ==
    LET mag == x.e + FLog2(Abs(x.n)) - FLog2(x.d)
    IN  IF x.n = 0 THEN 0
        ELSE IF mag >= 23 THEN (IF x.n < 0 THEN -FMAX ELSE FMAX)
        ELSE IF mag < -8 THEN (IF x.n < 0 THEN -1 ELSE 0)
        ELSE IF x.e >= 0 THEN (x.n * Pow2(x.e) * FSCALE) \div x.d
        ELSE IF -x.e <= 30
             THEN MulDiv(x.n, FSCALE, Pow2(-x.e)) \div x.d
        ELSE LET j == -x.e - 30
                 a == x.n \div Pow2(j)
                 c == ((x.n % Pow2(j)) * FSCALE) \div Pow2(j)
             IN  (MulDivSteps(a % Pow2(30), FSCALE, Pow2(30), c)
                    + (a \div Pow2(30)) * FSCALE) \div x.d
toFixed(x) == dispatch("toFixed", <<x>>)

HasNaN(c) == c.re.k = "nan" \/ c.im.k = "nan"
NonFinite(c) == c.re.k # "fin" \/ c.im.k # "fin"

\* fractal() on the numbers of the image loop; the result carries za as a
\* number (NaN while za is unassigned, as Math.log sees it).  A start value
\* or an addend that is not finite is followed by hand: NaN never passes
\* the bailout test, Infinity passes it at once.
fractalOfBody(c, cj, n, maxiter, radius2, mode, variant) ==
    LET z0 == IF mode = JULIA THEN c ELSE [re |-> NInt(0), im |-> NInt(0)]
        k  == IF mode = JULIA THEN cj ELSE c
        za0 == LET zf == variantZ(toFixed(z0.re), toFixed(z0.im), variant)
               IN  FMul(zf.re, zf.re) + FMul(zf.im, zf.im)
    IN  IF ~(0 < maxiter) THEN [i |-> 0, za |-> NaN]
        ELSE IF HasNaN(z0) THEN [i |-> maxiter, za |-> NaN]
        ELSE IF NonFinite(z0) THEN [i |-> 0, za |-> PosInf]
        ELSE IF NonFinite(k)
             THEN IF bailout(za0, radius2 * FSCALE)
                  THEN [i |-> 0, za |-> NFrac(za0, FSCALE)]
                  ELSE IF maxiter = 1 THEN [i |-> 1, za |-> NFrac(za0, FSCALE)]
                  ELSE IF HasNaN(k) THEN [i |-> maxiter, za |-> NaN]
                  ELSE [i |-> 1, za |-> PosInf]
        ELSE LET res == fractal([re |-> toFixed(c.re), im |-> toFixed(c.im)],
                                [re |-> toFixed(cj.re), im |-> toFixed(cj.im)],
                                n, maxiter, radius2 * FSCALE, mode, variant)
             IN  [i |-> res.i,
                  za |-> IF res.za = Undefined THEN NaN
                         ELSE NFrac(res.za, FSCALE)]
fractalOf(c, cj, n, maxiter, radius2, mode, variant) == dispatch("fractalOf", <<c, cj, n, maxiter, radius2, mode, variant>>)

\* a channel as the Uint8ClampedArray of the image data stores it
\* (channels are integers; NaN is stored as 0)
clamp8(ch) == IF ch < 0 THEN 0 ELSE IF ch > 255 THEN 255 ELSE ch

\* plot(x, y, color, width)
pixelindex(x, y, width) == (y * width + x) * 4
plotBody(data, x, y, color, width) ==
    [data EXCEPT ![pixelindex(x, y, width) \div 4] =
        [r |-> clamp8(color.r), g |-> clamp8(color.g),
         b |-> clamp8(color.b), a |-> clamp8(color.a)]]
plot(data, x, y, color, width) == dispatch("plot", <<data, x, y, color, width>>)

\* the offsets of imagedata.data that plot(x, y, color, width) stores into,
\* in the order of its four assignments
plotWrites(x, y, width) ==
    [j \in 1..4 |-> [x |-> x, y |-> y, at |-> pixelindex(x, y, width) + j - 1]]

\* the pixels in the order of the two nested loops: x outer, y inner
pixelAt(k, height) == [x |-> k \div height, y |-> k % height]

(***************************************************************************)
(* colorutils.js : conversion between hex colour strings and RGB triples.  *)
(* A string is the sequence of its characters.                             *)
(***************************************************************************)
HexDigits ==
    <<"0", "1", "2", "3", "4", "5", "6", "7", "8", "9",
      "a", "b", "c", "d", "e", "f">>
HexUpper == <<"A", "B", "C", "D", "E", "F">>

\* the characters that [a-f\d] matches under the flag i
IsHexChar(ch) ==
    \/ \E k \in 1..16 : HexDigits[k] = ch
    \/ \E k \in 1..6 : HexUpper[k] = ch

\* value of one hex digit
hexValue(ch) ==
    IF \E k \in 1..16 : HexDigits[k] = ch
    THEN (CHOOSE k \in 1..16 : HexDigits[k] = ch) - 1
    ELSE (CHOOSE k \in 1..6 : HexUpper[k] = ch) + 9

\* val.toString(16) of an integer val >= 0
RECURSIVE toString16(_)
toString16(val) ==
    IF val < 16 THEN <<HexDigits[val + 1]>>
    ELSE Append(toString16(val \div 16), HexDigits[(val % 16) + 1])

\* valtoHex as it would be without the leading zero of a one-digit value
valtoHexNoPad(val) == toString16(val)
\* valtoHex(val)
valtoHexBody(val) ==
    LET hex == toString16(val)
    IN  IF Len(hex) = 1 THEN <<"0">> \o hex ELSE hex
valtoHex(val) == dispatch("valtoHex", <<val>>)

\* RGBtoHex(r, g, b)
RGBtoHexBody(r, g, b) == <<"#">> \o valtoHex(r) \o valtoHex(g) \o valtoHex(b)
RGBtoHex(r, g, b) == dispatch("RGBtoHex", <<r, g, b>>)

\* HextoRGB(hex): the triple, or Null for a string that is no hex colour
HextoRGBBody(hex) ==
    LET h1 == SelectSeq(hex, LAMBDA ch : ch # "#")
        h2 == IF Len(h1) = 3
              THEN <<h1[1], h1[1], h1[2], h1[2], h1[3], h1[3]>>
              ELSE h1
        byte(k) == 16 * hexValue(h2[k]) + hexValue(h2[k + 1])
    IN  IF Len(h2) = 6 /\ \A k \in 1..6 : IsHexChar(h2[k])
        THEN <<byte(1), byte(3), byte(5)>>
        ELSE Null
HextoRGB(hex) == dispatch("HextoRGB", <<hex>>)

(***************************************************************************)
(* complexlite.js : Complex objects.  start() holds three references       *)
(* (pinit, cJulia, cOffset) to Complex objects; the objects live in the    *)
(* cells 1 .. 3 of a heap, so that two references to one object are told   *)
(* from two objects of equal value.                                        *)
(***************************************************************************)
Complex(re, im) == [re |-> re, im |-> im]
Cells == 1..3
Zero == Complex(NInt(0), NInt(0))

\* Complex.prototype.set on the object that ref points to
set(heap, ref, re, im) == [heap EXCEPT ![ref] = Complex(re, im)]

\* the cell of a new object, the references in live staying in use
new(live) == CHOOSE c \in Cells : c \notin live /\ \A d \in Cells \ live : c <= d

\* Math.cos
CosBody(x) == Sin(NAdd(x, NDiv(PI, NInt(2))))
Cos(x) == dispatch("Cos", <<x>>)

\* Complex.prototype.rotate: the value of the object returned; the way
\* through polar() and back is the product with cos(angle) + i sin(angle)
rotateBody(z, angle) ==
    IF ~IsFinite(angle) THEN Complex(NaN, NaN)
    ELSE Complex(NSub(NMul(z.re, Cos(angle)), NMul(z.im, Sin(angle))),
                 NAdd(NMul(z.re, Sin(angle)), NMul(z.im, Cos(angle))))
rotate(z, angle) == dispatch("rotate", <<z, angle>>)

\* x % m on numbers (sign of the dividend)
NModBody(x, m) ==
    IF ~IsFinite(x) \/ IsNaN(m) THEN NaN
    ELSE IF ~IsFinite(m) THEN x
    ELSE IF m.n = 0 THEN NaN
    ELSE NSub(x, NMul(m, NInt(NTrunc(NDiv(x, m)))))
NMod(x, m) == dispatch("NMod", <<x, m>>)

(***************************************************************************)
(* app.js : start().  The functions of start() are given as functions of   *)
(* a record s of the variables of start() and of the parts of the page     *)
(* they read and write.  Two fields follow one handler run: threw tells    *)
(* that an exception is on its way out of the handler, renders lists the   *)
(* exponent and zoom of every generateImage call made.                     *)
(***************************************************************************)
\* the canvas: canvas.height and canvas.width as getSize() yields them in
\* a window 3 pixels high
imageh == 2
imagew == 3
radius == 256
LEVELS == <<16, 32, 64, 128, 256>>
PALETTE == <<4, 8, 12, 16>>
EXPONENTS == <<2, 3, 4, 5, 6, 7, 8>>
Pixels == 0..(imagew * imageh - 1)

\* the gradients that init() builds
colmapsInit ==
    <<makeColormap(palettesInit[1], 256, 4).value,
      makeColormap(palettesInit[2], 256, 0).value,
      makeColormap(palettesInit[3], 256, 0).value>>

\* the colour of pixel (x, y)
pixelColorBody(s, width, height, x, y, maxiter) ==
    LET c == ptoc(width, height, NInt(x), NInt(y), s.heap[s.cOffset],
                  s.zoom, s.swapaxes)
        scalars == fractalOf(c, s.heap[s.cJulia], s.exponent, maxiter,
                             radius * radius, s.setmode, s.setvar)
    IN  getColor(scalars, maxiter, s.theme, s.shift, radius, s.exponent,
                 s.colmaps, s.interp)
pixelColor(s, width, height, x, y, maxiter) == dispatch("pixelColor", <<s, width, height, x, y, maxiter>>)

\* the order in which the two nested loops of generateImage visit the
\* pixels: pass k (from 0) visits pixelAt(loopOrder[k + 1], height)
loopOrder(width, height) == [k \in 1..(width * height) |-> k - 1]

\* the passes k .. width*height-1 of the pixel loop of generateImage, taken
\* in the given order; st holds the image data, the offsets written so far
\* and threw once getColor has thrown
RECURSIVE imageLoop(_, _, _, _, _, _, _)
imageLoop(s, width, height, maxiter, order, k, st) ==
    IF k >= width * height \/ st.threw THEN st
    ELSE LET p   == pixelAt(order[k + 1], height)
             col == pixelColor(s, width, height, p.x, p.y, maxiter)
         IN  IF "exception" \in DOMAIN col.value
             THEN [st EXCEPT !.threw = TRUE]
             ELSE imageLoop(s, width, height, maxiter, order, k + 1,
                            [st EXCEPT !.data = plot(st.data, p.x, p.y,
                                                     col.value, width),
                                       !.writes = @ \o plotWrites(p.x, p.y,
                                                                  width)])

\* which render each pixel of the buffer stems from, counted back from the
\* latest render that the buffer holds a pixel of (history of imagedata)
stamped(origin, writes, width) ==
    LET aged == [p \in DOMAIN origin |->
                    IF \E k \in DOMAIN writes : writes[k].at \div 4 = p
                    THEN 0 ELSE origin[p] + 1]
        least == CHOOSE m \in {aged[p] : p \in DOMAIN aged} :
                    \A p \in DOMAIN aged : m <= aged[p]
    IN  [p \in DOMAIN aged |-> aged[p] - least]

\* generateImage(width, height) with its pixel loop taken in the given order
renderBody(s, width, height, order) ==
    LET maxiter == IF s.autoiter THEN getAutoiter(s.zoom, s.setmode)
                   ELSE s.maxiter
        st == imageLoop(s, width, height, maxiter, order, 0,
                        [data |-> s.imagedata, threw |-> FALSE,
                         writes |-> <<>>])
    IN  [s EXCEPT !.maxiter = maxiter,
                  !.imagedata = st.data,
                  !.origin = stamped(@, st.writes, width),
                  !.threw = st.threw,
                  !.renders = Append(@, [exponent |-> s.exponent,
                                         zoom |-> s.zoom,
                                         width |-> width, height |-> height,
                                         writes |-> st.writes])]
render(s, width, height, order) == dispatch("render", <<s, width, height, order>>)

\* generateImage(width, height)
generateImageBody(s, width, height) ==
    render(s, width, height, loopOrder(width, height))
generateImage(s, width, height) == dispatch("generateImage", <<s, width, height>>)

\* reset(); updateInfo() writes the information panel and the form only
resetBody(s) ==
    [s EXCEPT !.heap = set(set(s.heap, s.cOffset, NFrac(-1, 2), NInt(0)),
                           s.cJulia, NInt(0), NInt(0)),
              !.zoom = NFrac(3, 4),
              !.maxiter = MINITERM,
              !.zoominc = NFrac(3, 2),
              !.exponent = 2,
              !.theme = 0,
              !.shift = ShiftNum(0),
              !.setmode = 0,
              !.setvar = 0,
              !.autoiter = TRUE,
              !.spinning = FALSE,
              !.zooming = FALSE,
              !.spininc = NInt(1),
              !.interp = 1,
              !.swapaxes = FALSE,
              !.angle = NInt(0)]
reset(s) == dispatch("reset", <<s>>)

\* the variables of start() as declared, and the page as loaded; reset()
\* assigns the variables that are declared without a value
Declared ==
    [setmode |-> 0, setvar |-> 0,
     pinit |-> 1, cJulia |-> 2, cOffset |-> 3,
     heap |-> [c \in Cells |-> IF c = 3 THEN Complex(NFrac(-1, 2), NInt(0))
                               ELSE Zero],
     zoom |-> NaN, maxiter |-> MaxiterNaN, exponent |-> 2, autoiter |-> TRUE,
     theme |-> 0, shift |-> ShiftNum(0),
     zoomarea |-> [x |-> 0, y |-> 0, w |-> 1, h |-> 1],
     zoomdraw |-> FALSE, zoominc |-> NFrac(3, 2),
     spinning |-> FALSE, zooming |-> FALSE,
     angle |-> NInt(0), spininc |-> NInt(1), interp |-> 1,
     swapaxes |-> FALSE,
     colmaps |-> <<>>, palettes |-> palettesInit,
     lastcolmap |-> Len(THEMES),
     themeset |-> 0, settings |-> FALSE, help |-> FALSE,
     slots |-> [k \in 1..16 |-> <<>>],
     imagedata |-> [k \in Pixels |-> [r |-> 0, g |-> 0, b |-> 0, a |-> 0]],
     origin |-> [k \in Pixels |-> 0],
     threw |-> FALSE, renders |-> <<>>]

\* init()
initBody(s) ==
    generateImage(reset([s EXCEPT !.themeset = Len(THEMES),
                                  !.colmaps = colmapsInit]),
                  imagew, imageh)
init(s) == dispatch("init", <<s>>)

\* the next zoom-in step of the animation is taken: zoom < 1e15.  1e15 is
\* 29802322.39 * 2^25; the comparison is made on zoom / 2^25
belowZoomLimitBody(zoom) ==
    /\ IsFinite(zoom)
    /\ \/ zoom.n <= 0
       \/ LET mag == zoom.e + FLog2(zoom.n) - FLog2(zoom.d)
          IN  \/ mag < 48
              \/ mag <= 50 /\ NFloor(NMul(zoom, Norm(1, 1, -25))) <= 29802322
belowZoomLimit(zoom) == dispatch("belowZoomLimit", <<zoom>>)

\* doZooming()
doZoomingBody(s) ==
    IF s.zooming
    THEN generateImage(
             IF belowZoomLimit(s.zoom)
             THEN [s EXCEPT !.zoom = NMul(s.zoom, s.zoominc)]
             ELSE [s EXCEPT !.zooming = FALSE],
             imagew, imageh)
    ELSE s
doZooming(s) == dispatch("doZooming", <<s>>)

\* cJulia = cJulia.rotate(a)
rotateJuliaBody(s, a) ==
    LET c == new({s.pinit, s.cOffset})
    IN  [s EXCEPT !.cJulia = c,
                  !.heap = [s.heap EXCEPT ![c] = rotate(s.heap[s.cJulia], a)]]
rotateJulia(s, a) == dispatch("rotateJulia", <<s, a>>)

\* cJulia = cJulia.rotate(a); angle = (angle + a) % (2 * Math.PI)
spinJuliaBody(s, a) ==
    [rotateJulia(s, a) EXCEPT
        !.angle = NMod(NAdd(s.angle, a), NMul(NInt(2), PI))]
spinJulia(s, a) == dispatch("spinJulia", <<s, a>>)

\* doSpinning()
doSpinningBody(s) ==
    IF s.spinning /\ s.setmode = JULIA
    THEN generateImage(spinJulia(s, NDiv(s.spininc, NInt(100))),
                       imagew, imageh)
    ELSE s
doSpinning(s) == dispatch("doSpinning", <<s>>)

\* main(tframe): putImageData and doZoomDraw draw and change no variable
mainBody(s) ==
    LET s1 == doZooming(s)
    IN  IF s1.threw THEN s1 ELSE doSpinning(s1)
main(s) == dispatch("main", <<s>>)

\* onMouseDown(e); mpos is getMousePos(canvas, e)
onMouseDownBody(s, mpos, altKey, shiftKey, ctrlKey) ==
    LET p  == new({s.cJulia, s.cOffset})
        s1 == [s EXCEPT
                 !.pinit = p,
                 !.heap = [s.heap EXCEPT ![p] =
                             ptoc(imagew, imageh, NInt(mpos.x), NInt(mpos.y),
                                  s.heap[s.cOffset], s.zoom, FALSE)],
                 !.zooming = FALSE]
    IN  IF altKey
        THEN generateImage(
               IF s1.setmode = MANDELBROT
               THEN [s1 EXCEPT !.setmode = JULIA,
                               !.cJulia = p,
                               !.heap = set(s1.heap, s1.cOffset,
                                            NInt(0), NInt(0))]
               ELSE [s1 EXCEPT !.setmode = MANDELBROT,
                               !.heap = set(s1.heap, s1.cOffset,
                                            NFrac(-1, 2), NInt(0))],
               imagew, imageh)
        ELSE IF shiftKey
        THEN generateImage([s1 EXCEPT !.cOffset = p], imagew, imageh)
        ELSE IF ctrlKey
        THEN generateImage([s1 EXCEPT !.cOffset = p,
                                      !.zoom = NDiv(s1.zoom, s1.zoominc)],
                           imagew, imageh)
        ELSE [s1 EXCEPT !.zoomarea = [x |-> mpos.x, y |-> mpos.y,
                                      w |-> 0, h |-> 0],
                        !.zoomdraw = TRUE]
onMouseDown(s, mpos, altKey, shiftKey, ctrlKey) == dispatch("onMouseDown", <<s, mpos, altKey, shiftKey, ctrlKey>>)

\* onMouseMove(e)
onMouseMoveBody(s, mpos) ==
    [s EXCEPT !.zoomarea.w = Abs(mpos.x - s.zoomarea.x),
              !.zoomarea.h = Abs(mpos.y - s.zoomarea.y)]
onMouseMove(s, mpos) == dispatch("onMouseMove", <<s, mpos>>)

\* onMouseUp(e), lines 367 - 376: the size of the drawn area, its centre as
\* the code computes it, and the zoom factor
zoomGesture(zoomarea, mpos, width, height, zoominc) ==
    LET w == Abs(mpos.x - zoomarea.x)
        h == Abs(mpos.y - zoomarea.y)
    IN  [w |-> w, h |-> h,
         zx |-> NAdd(NInt(zoomarea.x), NFrac(w, 2)),
         zy |-> NAdd(NInt(zoomarea.y), NFrac(h, 2)),
         zoomf |-> IF w > 2 /\ h > 2
                   THEN (IF w > h THEN NFrac(width, w) ELSE NFrac(height, h))
                   ELSE zoominc]

\* onMouseUp(e)
onMouseUpBody(s, mpos) ==
    IF s.zoomdraw
    THEN LET g == zoomGesture(s.zoomarea, mpos, imagew, imageh, s.zoominc)
             c == new({s.pinit, s.cJulia})
             s1 == generateImage(
                     [s EXCEPT !.zoomarea.w = g.w,
                               !.zoomarea.h = g.h,
                               !.cOffset = c,
                               !.heap = [s.heap EXCEPT ![c] =
                                           ptoc(imagew, imageh, g.zx, g.zy,
                                                s.heap[s.cOffset], s.zoom,
                                                FALSE)],
                               !.zoom = NMul(s.zoom, g.zoomf)],
                     imagew, imageh)
         IN  IF s1.threw THEN s1 ELSE [s1 EXCEPT !.zoomdraw = FALSE]
    ELSE [s EXCEPT !.zoomdraw = FALSE]
onMouseUp(s, mpos) == dispatch("onMouseUp", <<s, mpos>>)

\* setPalette(): threw is set where palettes[idx][i] is null
RECURSIVE paletteLoop(_, _, _)
paletteLoop(s, pal, i) ==
    IF i > Len(pal) THEN s
    ELSE IF pal[i] = Null THEN [s EXCEPT !.threw = TRUE]
    ELSE paletteLoop([s EXCEPT !.slots[i] =
                                  RGBtoHex(pal[i][1], pal[i][2], pal[i][3])],
                     pal, i + 1)
setPaletteBody(s) ==
    IF s.theme < 3 \/ s.theme > Len(THEMES) - 1
    THEN LET idx == IF s.theme < 3 THEN s.theme ELSE s.theme - STATICTHEMES
         IN  IF idx < 0 \/ idx >= Len(s.palettes)
             THEN [s EXCEPT !.threw = TRUE]
             ELSE paletteLoop(s, s.palettes[idx + 1], 1)
    ELSE s
setPalette(s) == dispatch("setPalette", <<s>>)

\* rotateset & (2 * Math.PI) for an integer rotateset: the bits 1 and 2
bitAnd6(a) == LET m == a % 8 IN m - (m % 2)

\* shift + 5 where shift is a string: the digit is appended
plus5(shift) ==
    IF shift.str THEN (IF shift.v < 0 THEN shift.v * 10 - 5
                       ELSE shift.v * 10 + 5)
    ELSE shift.v + 5

\* doValidateSettings(); form holds the values of the form fields, parsed
\* as the function parses them (NaN for a field that does not parse)
doValidateSettingsBody(s, form) ==
    LET s1 == [s EXCEPT !.autoiter = form.autoiter,
                        !.setmode = form.modeset,
                        !.setvar = form.variantset,
                        !.theme = form.themeset,
                        !.interp = form.interpolateset,
                        !.swapaxes = form.swapaxes]
        s2 == IF ~IsNaN(form.zoffre) /\ ~IsNaN(form.zoffim)
              THEN [s1 EXCEPT !.heap = set(s1.heap, s1.cOffset,
                                           form.zoffre, form.zoffim)]
              ELSE s1
        s3 == IF ~IsNaN(form.jre) /\ ~IsNaN(form.jim)
              THEN [s2 EXCEPT !.heap = set(s2.heap, s2.cJulia,
                                           form.jre, form.jim)]
              ELSE s2
        s4 == [s3 EXCEPT
                 !.exponent = IF ~IsNaN(form.expset) THEN NTrunc(form.expset)
                              ELSE @,
                 !.maxiter = IF ~IsNaN(form.maxiset) THEN NTrunc(form.maxiset)
                             ELSE @,
                 !.zoom = IF ~IsNaN(form.zoomset) THEN form.zoomset ELSE @,
                 !.zoominc = IF ~IsNaN(form.zoomincset) THEN form.zoomincset
                             ELSE @]
        s5 == IF ~IsNaN(form.rotateset)
              THEN LET a == NInt(bitAnd6(NTrunc(form.rotateset)))
                   IN  [rotateJulia(s4, a) EXCEPT !.angle = a]
              ELSE s4
    IN  [s5 EXCEPT
           !.spininc = IF ~IsNaN(form.spinincset) THEN form.spinincset ELSE @,
           !.shift = IF form.shiftset.numeric THEN ShiftStr(form.shiftset.v)
                     ELSE @]
doValidateSettings(s, form) == dispatch("doValidateSettings", <<s, form>>)

\* doPaint(); the three arguments are the selectedIndex of paletteset,
\* levelset and interpset
doPaintBody(s, paletteset, levelset, interpset) ==
    LET palette == PALETTE[paletteset + 1]
        levels  == LEVELS[levelset + 1]
        colmap  == [i \in 1..palette |-> HextoRGB(s.slots[i])]
        s1      == [s EXCEPT !.palettes = Append(@, colmap)]
        cmap    == makeColormap(colmap, levels, interpset)
    IN  IF cmap.threw THEN [s1 EXCEPT !.threw = TRUE]
        ELSE [s1 EXCEPT !.colmaps = Append(@, cmap.value),
                        !.themeset = @ + 1,
                        !.theme = s.lastcolmap,
                        !.lastcolmap = @ + 1]
doPaint(s, paletteset, levelset, interpset) == dispatch("doPaint", <<s, paletteset, levelset, interpset>>)

\* onPaletteClick(e) on the slot color<i>; col is the colour picker's value
onPaletteClickBody(s, i, col) == [s EXCEPT !.slots[i] = col]
onPaletteClick(s, i, col) == dispatch("onPaletteClick", <<s, i, col>>)

\* the switch of onButtonClick(e) for a target without input
onButtonBody(s, id) ==
    CASE id = "btnZoomOut" -> [s EXCEPT !.zoom = NDiv(s.zoom, s.zoominc)]
      [] id = "btnZoomIn" -> [s EXCEPT !.zoom = NMul(s.zoom, s.zoominc)]
      [] id = "btnZoomAnimate" -> [s EXCEPT !.zooming = ~s.zooming]
      [] id = "btnReset" -> reset(s)
      [] id = "btnMode" ->
           IF (s.setmode + 1) % 2 = MANDELBROT
           THEN [s EXCEPT !.setmode = MANDELBROT,
                          !.heap = set(set(s.heap, s.cOffset,
                                           NFrac(-1, 2), NInt(0)),
                                       s.cJulia, NInt(0), NInt(0))]
           ELSE [s EXCEPT !.setmode = JULIA,
                          !.heap = set(s.heap, s.cOffset, NInt(0), NInt(0)),
                          !.cJulia = s.pinit]
      [] id = "btnVariant" -> [s EXCEPT !.setvar = (s.setvar + 1) % 3]
      [] id = "btnColor" ->
           [s EXCEPT !.theme = JSRem(s.theme + 1, Len(THEMES))]
      [] id = "btnExponent" ->
           [s EXCEPT !.exponent = IF s.exponent > 6 THEN 2
                                  ELSE s.exponent + 1]
      [] id = "btnColorUp" ->
           [s EXCEPT !.shift = ShiftNum(JSRem(s.shift.v - 5, 100))]
      [] id = "btnColorDown" ->
           LET sh == JSRem(plus5(s.shift), 100)
           IN  [s EXCEPT !.shift = ShiftNum(IF sh < 0 THEN 100 + sh ELSE sh)]
      [] id = "btnJuliaDown" ->
           spinJulia(s, NDiv(NMul(s.spininc, PI), NInt(180)))
      [] id = "btnJuliaUp" ->
           spinJulia(s, NDiv(NMul(NNeg(s.spininc), PI), NInt(180)))
      [] id = "btnJuliaSpin" -> [s EXCEPT !.spinning = ~s.spinning]
      [] id = "btnSettings" ->
           IF s.settings THEN [s EXCEPT !.settings = FALSE]
           ELSE setPalette([s EXCEPT !.settings = TRUE])
      [] id = "btnHelp" -> [s EXCEPT !.help = ~s.help]
      [] id = "btnSave" -> s
onButton(s, id) == dispatch("onButton", <<s, id>>)

\* onButtonClick(e): s1 is the state the switch leaves
onButtonClickBody(s1) ==
    IF s1.threw THEN s1 ELSE generateImage(s1, imagew, imageh)
onButtonClick(s1) == dispatch("onButtonClick", <<s1>>)

(***************************************************************************)
(* Every call of a function goes through dispatch: f(x, y) stands for      *)
(* dispatch("f", <<x, y>>), which evaluates fBody(x, y), the translation   *)
(* of the function's code.  The bodies thus refer to each other through    *)
(* one recursive operator, which keeps the expression tree that TLC builds *)
(* from the definitions of the size of the module.                         *)
(***************************************************************************)
dispatch(fn, a) ==
    CASE fn = "render" -> renderBody(a[1], a[2], a[3], a[4])
      [] fn = "fractal" ->
           fractalBody(a[1], a[2], a[3], a[4], a[5], a[6], a[7])
      [] fn = "Norm" ->
           NormBody(a[1], a[2], a[3])
      [] fn = "NMul" ->
           NMulBody(a[1], a[2])
      [] fn = "NDiv" ->
           NDivBody(a[1], a[2])
      [] fn = "NAdd" ->
           NAddBody(a[1], a[2])
      [] fn = "NSub" ->
           NSubBody(a[1], a[2])
      [] fn = "NLess" ->
           NLessBody(a[1], a[2])
      [] fn = "NFloor" ->
           NFloorBody(a[1])
      [] fn = "NCeil" ->
           NCeilBody(a[1])
      [] fn = "NTrunc" ->
           NTruncBody(a[1])
      [] fn = "NRem1" ->
           NRem1Body(a[1])
      [] fn = "interpolate" ->
           interpolateBody(a[1], a[2], a[3])
      [] fn = "getColormap" ->
           getColormapBody(a[1], a[2], a[3], a[4])
      [] fn = "makeColormapPass" ->
           makeColormapPassBody(a[1], a[2], a[3], a[4], a[5])
      [] fn = "makeColormap" ->
           makeColormapBody(a[1], a[2], a[3])
      [] fn = "Log2" ->
           Log2Body(a[1])
      [] fn = "Ln" ->
           LnBody(a[1])
      [] fn = "SqrtInt" ->
           SqrtIntBody(a[1])
      [] fn = "Sin" ->
           SinBody(a[1])
      [] fn = "NRem" ->
           NRemBody(a[1], a[2])
      [] fn = "normalize" ->
           normalizeBody(a[1], a[2], a[3])
      [] fn = "hsv2rgb" ->
           hsv2rgbBody(a[1], a[2], a[3])
      [] fn = "plusShift" ->
           plusShiftBody(a[1], a[2])
      [] fn = "getColor" ->
           getColorBody(a[1], a[2], a[3], a[4], a[5], a[6], a[7], a[8])
      [] fn = "ptoc" ->
           ptocBody(a[1], a[2], a[3], a[4], a[5], a[6], a[7])
      [] fn = "getAutoiter" ->
           getAutoiterBody(a[1], a[2])
      [] fn = "toFixed" ->
           toFixedBody(a[1])
      [] fn = "fractalOf" ->
           fractalOfBody(a[1], a[2], a[3], a[4], a[5], a[6], a[7])
      [] fn = "plot" ->
           plotBody(a[1], a[2], a[3], a[4], a[5])
      [] fn = "valtoHex" ->
           valtoHexBody(a[1])
      [] fn = "RGBtoHex" ->
           RGBtoHexBody(a[1], a[2], a[3])
      [] fn = "HextoRGB" ->
           HextoRGBBody(a[1])
      [] fn = "Cos" ->
           CosBody(a[1])
      [] fn = "rotate" ->
           rotateBody(a[1], a[2])
      [] fn = "NMod" ->
           NModBody(a[1], a[2])
      [] fn = "pixelColor" ->
           pixelColorBody(a[1], a[2], a[3], a[4], a[5], a[6])
      [] fn = "generateImage" ->
           generateImageBody(a[1], a[2], a[3])
      [] fn = "reset" ->
           resetBody(a[1])
      [] fn = "init" ->
           initBody(a[1])
      [] fn = "belowZoomLimit" ->
           belowZoomLimitBody(a[1])
      [] fn = "doZooming" ->
           doZoomingBody(a[1])
      [] fn = "rotateJulia" ->
           rotateJuliaBody(a[1], a[2])
      [] fn = "spinJulia" ->
           spinJuliaBody(a[1], a[2])
      [] fn = "doSpinning" ->
           doSpinningBody(a[1])
      [] fn = "main" ->
           mainBody(a[1])
      [] fn = "onMouseDown" ->
           onMouseDownBody(a[1], a[2], a[3], a[4], a[5])
      [] fn = "onMouseMove" ->
           onMouseMoveBody(a[1], a[2])
      [] fn = "onMouseUp" ->
           onMouseUpBody(a[1], a[2])
      [] fn = "setPalette" ->
           setPaletteBody(a[1])
      [] fn = "doValidateSettings" ->
           doValidateSettingsBody(a[1], a[2])
      [] fn = "doPaint" ->
           doPaintBody(a[1], a[2], a[3], a[4])
      [] fn = "onPaletteClick" ->
           onPaletteClickBody(a[1], a[2], a[3])
      [] fn = "onButton" ->
           onButtonBody(a[1], a[2])
      [] fn = "onButtonClick" ->
           onButtonClickBody(a[1])

(***************************************************************************)
(* State                                                                   *)
(***************************************************************************)
VARIABLES
    call,       \* the pure function under check and its arguments
    ret,        \* its result, or Pending before the call is made
    \* the variables of start() (app.js lines 63 - 90)
    imagedata, setmode, setvar, pinit, cJulia, cOffset, zoom, maxiter,
    exponent, autoiter, theme, shift, zoomarea, zoomdraw, zoominc, spinning,
    zooming, angle, spininc, interp, swapaxes, colmaps, lastcolmap,
    heap,       \* the Complex objects that pinit, cJulia and cOffset point to
    palettes,   \* the array palettes of colorutils.js
    \* the page
    themeset,   \* number of options of the select themeset
    settings,   \* the panels settings and palette are displayed
    help,       \* the panel help is displayed
    slots,      \* the values of the inputs color1 .. color16
    \* the run of the program
    origin,     \* which render each pixel of imagedata stems from
    event,      \* the event handled last, and how its handler went
    ops         \* number of events handled so far

purevars == <<call, ret>>

uivars ==
    <<imagedata, setmode, setvar, pinit, cJulia, cOffset, zoom, maxiter,
      exponent, autoiter, theme, shift, zoomarea, zoomdraw, zoominc, spinning,
      zooming, angle, spininc, interp, swapaxes, colmaps, lastcolmap, heap,
      palettes, themeset, settings, help, slots, origin, event, ops>>

vars == <<purevars, uivars>>

Pending == [pending |-> TRUE]
NoCall == [fn |-> "none"]

\* largest number of events handled in one run
MaxOps == 3

\* the variables as the record that the functions of start() work on
State ==
    [setmode |-> setmode, setvar |-> setvar,
     pinit |-> pinit, cJulia |-> cJulia, cOffset |-> cOffset, heap |-> heap,
     zoom |-> zoom, maxiter |-> maxiter, exponent |-> exponent,
     autoiter |-> autoiter, theme |-> theme, shift |-> shift,
     zoomarea |-> zoomarea, zoomdraw |-> zoomdraw, zoominc |-> zoominc,
     spinning |-> spinning, zooming |-> zooming,
     angle |-> angle, spininc |-> spininc, interp |-> interp,
     swapaxes |-> swapaxes,
     colmaps |-> colmaps, palettes |-> palettes, lastcolmap |-> lastcolmap,
     themeset |-> themeset, settings |-> settings, help |-> help,
     slots |-> slots, imagedata |-> imagedata, origin |-> origin,
     threw |-> FALSE, renders |-> <<>>]

\* the heap without the objects that no reference points to any more
collect(s) ==
    [c \in Cells |-> IF c \in {s.pinit, s.cJulia, s.cOffset} THEN s.heap[c]
                     ELSE Zero]

\* the variables after the handler of event id has left the record s
Becomes(id, s) ==
    /\ imagedata' = s.imagedata
    /\ setmode' = s.setmode
    /\ setvar' = s.setvar
    /\ pinit' = s.pinit
    /\ cJulia' = s.cJulia
    /\ cOffset' = s.cOffset
    /\ heap' = collect(s)
    /\ zoom' = s.zoom
    /\ maxiter' = s.maxiter
    /\ exponent' = s.exponent
    /\ autoiter' = s.autoiter
    /\ theme' = s.theme
    /\ shift' = s.shift
    /\ zoomarea' = s.zoomarea
    /\ zoomdraw' = s.zoomdraw
    /\ zoominc' = s.zoominc
    /\ spinning' = s.spinning
    /\ zooming' = s.zooming
    /\ angle' = s.angle
    /\ spininc' = s.spininc
    /\ interp' = s.interp
    /\ swapaxes' = s.swapaxes
    /\ colmaps' = s.colmaps
    /\ lastcolmap' = s.lastcolmap
    /\ palettes' = s.palettes
    /\ themeset' = s.themeset
    /\ settings' = s.settings
    /\ help' = s.help
    /\ slots' = s.slots
    /\ origin' = s.origin
    /\ event' = [id |-> id, threw |-> s.threw, renders |-> s.renders]

\* the state after start() has run init()
Loaded ==
    \E s \in {init(Declared)} :
        /\ imagedata = s.imagedata
        /\ setmode = s.setmode
        /\ setvar = s.setvar
        /\ pinit = s.pinit
        /\ cJulia = s.cJulia
        /\ cOffset = s.cOffset
        /\ heap = collect(s)
        /\ zoom = s.zoom
        /\ maxiter = s.maxiter
        /\ exponent = s.exponent
        /\ autoiter = s.autoiter
        /\ theme = s.theme
        /\ shift = s.shift
        /\ zoomarea = s.zoomarea
        /\ zoomdraw = s.zoomdraw
        /\ zoominc = s.zoominc
        /\ spinning = s.spinning
        /\ zooming = s.zooming
        /\ angle = s.angle
        /\ spininc = s.spininc
        /\ interp = s.interp
        /\ swapaxes = s.swapaxes
        /\ colmaps = s.colmaps
        /\ lastcolmap = s.lastcolmap
        /\ palettes = s.palettes
        /\ themeset = s.themeset
        /\ settings = s.settings
        /\ help = s.help
        /\ slots = s.slots
        /\ origin = s.origin
        /\ event = [id |-> "load", threw |-> s.threw, renders |-> s.renders]
        /\ ops = 0

(***************************************************************************)
(* Specification of the page: the events of app.js                         *)
(***************************************************************************)
\* the targets of onButtonClick that read no input
BUTTONS ==
    {"btnReset", "btnZoomIn", "btnZoomOut", "btnZoomAnimate", "btnMode",
     "btnVariant", "btnColor", "btnColorUp", "btnColorDown", "btnJuliaUp",
     "btnJuliaDown", "btnJuliaSpin", "btnExponent", "btnSettings", "btnSave",
     "btnHelp"}

\* positions that getMousePos reports
MousePos == {[x |-> 0, y |-> 0], [x |-> imagew, y |-> imageh]}
\* modifier keys held at a mouse-down
Modifiers == {"none", "alt", "shift", "ctrl"}

\* fills of the settings form; Blank is a field that does not parse
Blank == NaN
BlankForm ==
    [zoffre |-> Blank, zoffim |-> Blank, jre |-> Blank, jim |-> Blank,
     expset |-> Blank, maxiset |-> Blank, autoiter |-> TRUE,
     zoomset |-> Blank, zoomincset |-> Blank, rotateset |-> Blank,
     spinincset |-> Blank, shiftset |-> [numeric |-> FALSE, v |-> 0],
     modeset |-> MANDELBROT, variantset |-> STANDARD, themeset |-> 0,
     interpolateset |-> 1, swapaxes |-> FALSE]
Forms ==
    {BlankForm,
     [BlankForm EXCEPT !.zoomset = NInt(0)],
     [BlankForm EXCEPT !.zoomset = NInt(-1), !.themeset = 4],
     [BlankForm EXCEPT !.zoomincset = NInt(0), !.expset = NInt(0)],
     [BlankForm EXCEPT !.zoffre = NInt(0), !.zoffim = NInt(0),
                       !.jre = NFrac(-3, 4), !.jim = NFrac(1, 8),
                       !.expset = NInt(3), !.maxiset = NInt(20),
                       !.autoiter = FALSE, !.zoomset = NInt(1),
                       !.zoomincset = NInt(2), !.rotateset = NInt(0),
                       !.spinincset = NInt(2),
                       !.shiftset = [numeric |-> TRUE, v |-> 50],
                       !.modeset = JULIA, !.variantset = TRICORN,
                       !.themeset = 8, !.interpolateset = 0,
                       !.swapaxes = TRUE]}

\* choices of paletteset, levelset and interpset at a Paint
PaintChoices ==
    {[paletteset |-> 0, levelset |-> 0, interpset |-> 0],
     [paletteset |-> 3, levelset |-> 0, interpset |-> 1],
     [paletteset |-> 1, levelset |-> 1, interpset |-> 1]}

\* values of the colour picker, and texts typed into a palette slot
PickerColors == {<<"#", "5", "5", "5", "5", "5", "5">>}
SlotTexts == {<<>>, <<"#", "f", "8", "0">>}
\* the palette slots that are clicked or typed into
SlotSet == {1}

Button(id) ==
    /\ ops < MaxOps
    /\ \E s \in {onButtonClick(onButton(State, id))} : Becomes(id, s)
    /\ ops' = ops + 1
    /\ UNCHANGED purevars

ButtonClick == \E id \in BUTTONS : Button(id)

\* a click on APPLY; the button is in the settings panel
Apply ==
    /\ ops < MaxOps
    /\ settings
    /\ \E form \in Forms :
         /\ form.themeset < themeset
         /\ LET s1 == doValidateSettings(State, form)
                s2 == setPalette(s1)
            IN  \E s \in {onButtonClick(s2)} : Becomes("btnApply", s)
    /\ ops' = ops + 1
    /\ UNCHANGED purevars

\* a click on PAINT; the button is in the palette panel
Paint ==
    /\ ops < MaxOps
    /\ settings
    /\ \E ch \in PaintChoices :
         \E s \in {onButtonClick(doPaint(State, ch.paletteset, ch.levelset,
                                         ch.interpset))} :
             Becomes("btnPaint", s)
    /\ ops' = ops + 1
    /\ UNCHANGED purevars

PaletteClick ==
    /\ ops < MaxOps
    /\ settings
    /\ \E i \in SlotSet, col \in PickerColors :
         \E s \in {onPaletteClick(State, i, col)} : Becomes("paletteClick", s)
    /\ ops' = ops + 1
    /\ UNCHANGED purevars

\* the user types into a palette slot (index.html lines 156 - 172: the
\* slots are text inputs)
PaletteType ==
    /\ ops < MaxOps
    /\ settings
    /\ \E i \in SlotSet, text \in SlotTexts :
         /\ slots[i] # text
         /\ \E s \in {[State EXCEPT !.slots[i] = text]} :
                Becomes("paletteType", s)
    /\ ops' = ops + 1
    /\ UNCHANGED purevars

\* the name of a mouse-down event with the modifier key held
mouseDownEvent(key) ==
    CASE key = "alt" -> "alt+mousedown"
      [] key = "shift" -> "shift+mousedown"
      [] key = "ctrl" -> "ctrl+mousedown"
      [] OTHER -> "mousedown"

MouseDown ==
    /\ ops < MaxOps
    /\ \E mpos \in MousePos, key \in Modifiers :
         \E s \in {onMouseDown(State, mpos, key = "alt", key = "shift",
                               key = "ctrl")} :
             Becomes(mouseDownEvent(key), s)
    /\ ops' = ops + 1
    /\ UNCHANGED purevars

MouseMove ==
    /\ ops < MaxOps
    /\ \E mpos \in MousePos :
         \E s \in {onMouseMove(State, mpos)} : Becomes("mousemove", s)
    /\ ops' = ops + 1
    /\ UNCHANGED purevars

MouseUp ==
    /\ ops < MaxOps
    /\ \E mpos \in MousePos :
         \E s \in {onMouseUp(State, mpos)} : Becomes("mouseup", s)
    /\ ops' = ops + 1
    /\ UNCHANGED purevars

\* one animation frame
Frame ==
    /\ ops < MaxOps
    /\ \E s \in {main(State)} : Becomes("frame", s)
    /\ ops' = ops + 1
    /\ UNCHANGED purevars

Init ==
    /\ Loaded
    /\ call = NoCall
    /\ ret = Pending

Next ==
    \/ ButtonClick
    \/ Apply
    \/ Paint
    \/ PaletteClick
    \/ PaletteType
    \/ MouseDown
    \/ MouseMove
    \/ MouseUp
    \/ Frame

Spec == Init /\ [][Next]_vars

\* the defaults that reset() establishes
IsDefault ==
    /\ heap[cOffset] = Complex(NFrac(-1, 2), NInt(0))
    /\ heap[cJulia] = Complex(NInt(0), NInt(0))
    /\ zoom = NFrac(3, 4)
    /\ exponent = 2
    /\ theme = 0
    /\ shift = ShiftNum(0)
    /\ setmode = MANDELBROT
    /\ setvar = STANDARD
    /\ autoiter
    /\ ~swapaxes
    /\ ~zooming
    /\ ~spinning

\* C3: the gradient registry only grows: every step keeps the gradients
\* registered so far in place and unchanged, and a Paint appends exactly one
\* gradient and registers exactly one new theme index
C3_RegistryAppendOnly ==
    [][/\ Len(colmaps') >= Len(colmaps)
       /\ SubSeq(colmaps', 1, Len(colmaps)) = colmaps
       /\ event'.id = "btnPaint" =>
            /\ Len(colmaps') = Len(colmaps) + 1
            /\ lastcolmap' = lastcolmap + 1
            /\ themeset' = themeset + 1
       /\ event'.id # "btnPaint" =>
            /\ colmaps' = colmaps
            /\ lastcolmap' = lastcolmap]_vars

\* C4: at every call of generateImage the exponent is an integer >= 2 and
\* zoom is a finite number > 0
C4_RenderParameters ==
    \A k \in DOMAIN event.renders :
        /\ event.renders[k].exponent >= 2
        /\ IsFinite(event.renders[k].zoom)
        /\ event.renders[k].zoom.n > 0

\* C5: the colour shift is a number in 0 .. 100
C5_ShiftRange == ~shift.str /\ shift.v \in 0..100

\* C6: after Reset the state is the default one
C6_ResetDefaults == event.id = "btnReset" => IsDefault


\* C12: one generateImage(width, height) call writes, for every pixel (x, y)
\* of the canvas, exactly the four bytes at (y*width + x)*4 .. +3, each
\* exactly once, and no byte outside 0 .. width*height*4 - 1
C12_PixelBytes ==
    \A k \in DOMAIN event.renders :
        LET r == event.renders[k]
            w == r.width
            h == r.height
        IN  /\ \A i \in DOMAIN r.writes :
                   r.writes[i].at \in 0..(w * h * 4 - 1)
            /\ \A x \in 0..(w - 1), y \in 0..(h - 1), j \in 0..3 :
                   LET hits == {i \in DOMAIN r.writes :
                                   r.writes[i].at = (y * w + x) * 4 + j}
                   IN  /\ Cardinality(hits) = 1
                       /\ \A i \in hits : r.writes[i].x = x /\ r.writes[i].y = y

\* C13: the image that the main loop presents (putImageData, at the start
\* of a frame) consists of pixels of one single generateImage call
C13_PresentedFrameWhole ==
    [][event'.id = "frame" => \A p, q \in Pixels : origin[p] = origin[q]]_vars

(***************************************************************************)
(* Specification of fractal() as a pure function                           *)
(***************************************************************************)
\* plane coordinates tried, in 1/FSCALE units (-2.5 .. 2.5)
CoordSet == {-20, -16, -10, -8, -6, -3, -1, 0, 1, 2, 3, 6, 8, 16}
JuliaSet ==
    {[re |-> 0, im |-> 0], [re |-> -8, im |-> 0], [re |-> -6, im |-> 1],
     [re |-> -4 * FSCALE, im |-> 0]}
MaxIterSet == {1, 2, 25, MaxIterBound}
\* squared bailout radius: 4 and 16
Radius2Set == {4 * FSCALE, 16 * FSCALE}

FractalCalls ==
    [fn : {"fractal"},
     c : [re : CoordSet, im : {-10, -8, -1, 0, 1, 6}],
     cj : JuliaSet,
     n : {2, 3},
     maxiter : MaxIterSet,
     radius : Radius2Set,
     mode : {MANDELBROT, JULIA},
     variant : {STANDARD, BURNING_SHIP, TRICORN}]

InitFractal ==
    /\ Loaded
    /\ call \in FractalCalls
    /\ ret = Pending

CallFractal ==
    /\ call.fn = "fractal"
    /\ ret = Pending
    /\ ret' = fractal(call.c, call.cj, call.n, call.maxiter, call.radius,
                      call.mode, call.variant)
    /\ UNCHANGED call
    /\ UNCHANGED uivars

NextFractal == CallFractal

SpecFractal == InitFractal /\ [][NextFractal]_vars

\* C1: for maxiter >= 1 the returned iteration count lies in 0..maxiter, and
\* a count below maxiter comes with the squared magnitude that exceeded the
\* squared bailout radius
C1_IterationRange ==
    (call.fn = "fractal" /\ ret # Pending /\ call.maxiter >= 1) =>
        /\ ret.i \in 0..call.maxiter
        /\ (ret.i < call.maxiter => ret.za > call.radius)

C1_Witness ==
    /\ call.fn = "fractal" /\ ret # Pending
    /\ call.maxiter = MaxIterBound
    /\ ret.i > 2 /\ ret.i < call.maxiter
    /\ ret.za > call.radius

\* C15: the plane point 2+0i (Mandelbrot mode, Standard variant, exponent 2,
\* squared bailout radius >= 4, maxiter >= 1) escapes at iteration 0
C15_TwoEscapesAtZero ==
    (/\ call.fn = "fractal" /\ ret # Pending
     /\ call.c = [re |-> 2 * FSCALE, im |-> 0]
     /\ call.mode = MANDELBROT /\ call.variant = STANDARD /\ call.n = 2
     /\ call.radius >= 4 * FSCALE /\ call.maxiter >= 1) =>
        ret.i = 0

\* the iteration count of the plain escape-time loop for the call
plainCount ==
    LET julia == call.mode = JULIA
    IN  plainLoop([i |-> 0,
                   zre |-> IF julia THEN call.c.re ELSE 0,
                   zim |-> IF julia THEN call.c.im ELSE 0,
                   za |-> Undefined],
                  IF julia THEN call.cj.re ELSE call.c.re,
                  IF julia THEN call.cj.im ELSE call.c.im,
                  call.n, call.maxiter, call.radius, call.variant).i

\* C27: the periodicity check forces i = maxiter only for a z that the
\* orbit of this point has taken before, so in both modes a point reported
\* with i = maxiter is one whose orbit does not exceed the bailout radius
\* within maxiter iterations of the plain escape-time loop
C27_PeriodicMeansBounded ==
    (call.fn = "fractal" /\ ret # Pending /\ ret.i = call.maxiter) =>
        plainCount = call.maxiter

(***************************************************************************)
(* Specification of getColormap() as a pure function                       *)
(***************************************************************************)
\* a short gradient of distinct colours, and a gradient of the program
TestGradient == <<<<10, 20, 30>>, <<50, 60, 70>>, <<90, 0, 200>>, <<255, 128, 1>>>>
GradientSet == {TestGradient, COLORMAP_BB16}
NiSet ==
    {NaN, PosInf, NegInf, NInt(-9), NFrac(-5, 2), NInt(-1), NFrac(-1, 4),
     NInt(0), NFrac(1, 2), NFrac(7, 4), NInt(3), NFrac(35, 2), NInt(300)}
ShiftSet == {-5, 0, 5, 50, 95, 100}

ColormapCalls ==
    [fn : {"getColormap"}, ni : NiSet, colmap : GradientSet,
     shift : ShiftSet, interp : {0, 1}]

InitColormap ==
    /\ Loaded
    /\ call \in ColormapCalls
    /\ ret = Pending

CallGetColormap ==
    /\ call.fn = "getColormap"
    /\ ret = Pending
    /\ ret' = getColormap(call.ni, call.colmap, call.shift, call.interp)
    /\ UNCHANGED call
    /\ UNCHANGED uivars

NextColormap == CallGetColormap

SpecColormap == InitColormap /\ [][NextColormap]_vars

\* the shifted index floor(ni) + sh of a finite ni
shiftedIndex(c) ==
    NFloor(c.ni) + NCeil(NFrac(c.shift * Len(c.colmap), 100))

\* a normalized value the lookup cannot index with
malformed(c) == ~IsFinite(c.ni) \/ shiftedIndex(c) < 0

\* C2: for a NaN, infinite or negatively indexed normalized value the lookup
\* returns the white sentinel and logs the occurrence
C2_WhiteSentinel ==
    (call.fn = "getColormap" /\ ret # Pending /\ malformed(call)) =>
        /\ ret.value = White
        /\ ret.log # <<>>

\* C9: the lookup of v and of v + length give the same colour
C9_Periodic ==
    (call.fn = "getColormap" /\ ret # Pending /\ IsFinite(call.ni)) =>
        ret.value = getColormap(NAdd(call.ni, NInt(Len(call.colmap))),
                                call.colmap, call.shift, call.interp).value

(***************************************************************************)
(* Specification of makeColormap() as a pure function                      *)
(***************************************************************************)
\* the level counts of the claim; app.js offers 16 .. 256
GradientDepths == {16, 32, 64, 128, 256, 512}

Range(f) == {f[x] : x \in DOMAIN f}

\* the first depth slots of the palette panel, as doPaint collects them
paletteOf(keys, depth) == SubSeq(keys, 1, depth)

GradientCalls ==
    [fn : {"makeColormap"},
     palette : {paletteOf(palettesInit[p], d) : p \in 1..3, d \in Range(PALETTE)},
     levels : GradientDepths,
     shift : {0, 1}]

InitGradient ==
    /\ Loaded
    /\ call \in GradientCalls
    /\ ret = Pending

CallMakeColormap ==
    /\ call.fn = "makeColormap"
    /\ ret = Pending
    /\ ret' = makeColormap(call.palette, call.levels, call.shift)
    /\ UNCHANGED call
    /\ UNCHANGED uivars

NextGradient == CallMakeColormap

SpecGradient == InitGradient /\ [][NextGradient]_vars

\* C7: the built gradient has exactly the requested number of entries
C7_GradientLength ==
    (call.fn = "makeColormap" /\ ret # Pending) =>
        /\ ~ret.threw
        /\ Len(ret.value) = call.levels

C7_Witness ==
    /\ call.fn = "makeColormap" /\ ret # Pending
    /\ Len(call.palette) = 12 /\ call.levels = 512 /\ call.shift = 1
    /\ Len(ret.value) = 512

\* entry i of the gradient the claim describes: key colour k = floor(i*P/N),
\* held flat (mode 0) or blended with the next key colour at the fraction of
\* the span already covered (mode 1)
spanEntry(palette, levels, mode, i) ==
    LET P  == Len(palette)
        k  == (i * P) \div levels
        ca == palette[k + 1]
        cb == palette[((k + 1) % P) + 1]
        bl == interpolate([r |-> ca[1], g |-> ca[2], b |-> ca[3]],
                          [r |-> cb[1], g |-> cb[2], b |-> cb[3]],
                          NFrac(i * P, levels))
    IN  IF mode = 0 THEN ca ELSE <<bl.r, bl.g, bl.b>>

\* C8: every entry of a gradient built with more levels than key colours is
\* the span entry
C8_SpanEntries ==
    (call.fn = "makeColormap" /\ ret # Pending
        /\ call.levels > Len(call.palette)) =>
        \A i \in 0..(call.levels - 1) :
            ret.value[i + 1] = spanEntry(call.palette, call.levels, call.shift, i)

(***************************************************************************)
(* Specification of getColor() as a pure function                          *)
(***************************************************************************)
\* the registry after two Paints (4 key colours, 16 levels, both modes)
colmapsPainted ==
    colmapsInit \o
      <<makeColormap(paletteOf(COLORMAP_TROP16, 4), 16, 0).value,
        makeColormap(paletteOf(COLORMAP_CET16, 4), 16, 1).value>>

ColorMaxiterSet == {1, 50, MINITERM}
ColorCalls(registry) ==
    [fn : {"getColor"},
     colmaps : {registry},
     scalars : [i : {0, 1, 7, 50, MINITERM},
                za : {NaN, NInt(0), NFrac(3, 2), NInt(70000), NInt(4000000)}],
     maxiter : ColorMaxiterSet,
     theme : 0..(Len(THEMES) + 1),
     shift : {ShiftNum(0), ShiftNum(-5), ShiftNum(45), ShiftStr(100)},
     exponent : {2, 3},
     interp : {0, 1}]

InitColor ==
    /\ Loaded
    /\ \E registry \in {colmapsPainted} : call \in ColorCalls(registry)
    /\ ret = Pending

CallGetColor ==
    /\ call.fn = "getColor"
    /\ ret = Pending
    /\ ret' = getColor(call.scalars, call.maxiter, call.theme, call.shift,
                       radius, call.exponent, call.colmaps, call.interp)
    /\ UNCHANGED call
    /\ UNCHANGED uivars

NextColor == CallGetColor

SpecColor == InitColor /\ [][NextColor]_vars

\* C10: with any theme but 2-Color (index 9), user-painted themes included,
\* a point whose iteration count equals maxiter is coloured opaque black
C10_BoundBlack ==
    (call.fn = "getColor" /\ ret # Pending
        /\ call.theme # 9 /\ call.scalars.i = call.maxiter) =>
        ret.value = Black

C10_Witness ==
    /\ call.fn = "getColor" /\ ret # Pending
    /\ call.theme = Len(THEMES) + 1
    /\ call.scalars.i = call.maxiter
    /\ call.shift = ShiftNum(-5)
    /\ ret.value = Black

(***************************************************************************)
(* Specification of ptoc() as a pure function                              *)
(***************************************************************************)
\* canvas widths and heights tried
MaxSide == 4
Sides == 1..MaxSide
\* zoom factors tried: 1/8, 3/4, 1, 3/2 and 1000
ZoomSet == {Norm(1, 1, -3), NFrac(3, 4), NInt(1), NFrac(3, 2), NInt(1000)}
OffsetSet ==
    {Complex(NInt(0), NInt(0)), Complex(NFrac(-1, 2), NInt(0)),
     Complex(NFrac(3, 2), NFrac(-4, 3))}
\* pixel positions tried along a side of the given length: the start, the
\* middle and the end
Along(side) == {NInt(0), NFrac(side, 2), NInt(side)}

PtocCalls ==
    UNION {[fn : {"ptoc"}, width : {w}, height : {h},
            x : Along(w), y : Along(h),
            zoffpos : OffsetSet, zoom : ZoomSet, swap : BOOLEAN] :
           w \in Sides, h \in Sides}

InitPtoc ==
    /\ Loaded
    /\ call \in PtocCalls
    /\ ret = Pending

CallPtoc ==
    /\ call.fn = "ptoc"
    /\ ret = Pending
    /\ ret' = ptoc(call.width, call.height, call.x, call.y, call.zoffpos,
                   call.zoom, call.swap)
    /\ UNCHANGED call
    /\ UNCHANGED uivars

NextPtoc == CallPtoc

SpecPtoc == InitPtoc /\ [][NextPtoc]_vars

\* the call asks for the centre pixel (width/2, height/2)
centrePixel(c) == c.x = NFrac(c.width, 2) /\ c.y = NFrac(c.height, 2)

\* C16: ptoc maps the centre pixel (width/2, height/2) to the pan offset,
\* hence to the plane origin when the pan offset is zero, for every zoom > 0,
\* every canvas size and both settings of the axis swap
C16_CentreIsOffset ==
    (call.fn = "ptoc" /\ ret # Pending /\ centrePixel(call)
        /\ IsFinite(call.zoom) /\ call.zoom.n > 0) =>
        /\ ret = call.zoffpos
        /\ (call.zoffpos = Complex(NInt(0), NInt(0)) =>
               ret = Complex(NInt(0), NInt(0)))

C16_Witness ==
    /\ call.fn = "ptoc" /\ ret # Pending /\ centrePixel(call)
    /\ call.swap /\ call.width = 3 /\ call.height = 2
    /\ call.zoom = NFrac(3, 2)
    /\ call.zoffpos = Complex(NInt(0), NInt(0))
    /\ ret = Complex(NInt(0), NInt(0))

(***************************************************************************)
(* Specification of generateImage() with its pixel loop in any order       *)
(***************************************************************************)
\* orders of the pixels: the order of the code, its reverse, row by row, and
\* the order of the code begun one pixel later
PixelOrders ==
    LET n == imagew * imageh
    IN  {loopOrder(imagew, imageh),
         [k \in 1..n |-> n - k],
         [k \in 1..n |-> ((k - 1) % imagew) * imageh + (k - 1) \div imagew],
         [k \in 1..n |-> k % n]}

\* the buttons clicked before the render looked at
RenderButtons ==
    {"btnColor", "btnColorUp", "btnColorDown", "btnMode", "btnVariant",
     "btnExponent", "btnZoomIn"}

RenderCalls ==
    [fn : {"render"}, first : RenderButtons, second : RenderButtons,
     order : PixelOrders]

\* the state in which the click on the second button starts its render
beforeRender(s, first, second) ==
    LET s1 == onButtonClick(onButton(s, first))
    IN  onButton([s1 EXCEPT !.threw = FALSE, !.renders = <<>>], second)

InitRender ==
    /\ Loaded
    /\ call \in RenderCalls
    /\ ret = Pending

\* the render of the second click, by the loops of the code and with the
\* pixels taken in the order call.order
CallRender ==
    /\ call.fn = "render"
    /\ ret = Pending
    /\ \E s \in {beforeRender(State, call.first, call.second)} :
          ret' = [coded |-> generateImage(s, imagew, imageh).imagedata,
                  ordered |-> render(s, imagew, imageh,
                                     call.order).imagedata]
    /\ UNCHANGED call
    /\ UNCHANGED uivars

NextRender == CallRender

SpecRender == InitRender /\ [][NextRender]_vars

\* C14: the buffer that generateImage produces does not depend on the order
\* in which the pixels are processed
C14_OrderIndependent ==
    (call.fn = "render" /\ ret # Pending) =>
        ret.ordered = ret.coded

\* C11: normalize is never invoked with the escape result of a point that
\* did not escape (scalars.i == maxiter), whatever the theme
C11_NormalizeEscapedOnly ==
    (call.fn = "getColor" /\ ret # Pending) =>
        \A k \in DOMAIN ret.normalized : ret.normalized[k].i # call.maxiter


HueSet ==
    {NInt(0), NFrac(1, 12), NFrac(1, 4), NFrac(5, 12), NFrac(1, 2),
     NFrac(7, 12), NFrac(3, 4), NFrac(11, 12), NInt(1)}
SaturationSet == {NInt(0), NFrac(1, 2), NFrac(3, 4), NInt(1)}
ValueSet == {NInt(0), NInt(1)}

HsvCalls == [fn : {"hsv2rgb"}, h : HueSet, s : SaturationSet, v : ValueSet]

InitHsv ==
    /\ Loaded
    /\ call \in HsvCalls
    /\ ret = Pending

CallHsv2rgb ==
    /\ call.fn = "hsv2rgb"
    /\ ret = Pending
    /\ ret' = hsv2rgb(call.h, call.s, call.v)
    /\ UNCHANGED call
    /\ UNCHANGED uivars

NextHsv == CallHsv2rgb

SpecHsv == InitHsv /\ [][NextHsv]_vars

\* C18: hsv2rgb(0, 0, 1) is pure white (255, 255, 255), hsv2rgb(0, 1, 1) is
\* pure red (255, 0, 0), and with saturation 0 every channel is the value
\* scaled to 0..255
C18_WhiteRedGray ==
    (call.fn = "hsv2rgb" /\ ret # Pending) =>
        /\ (call.h = NInt(0) /\ call.s = NInt(0) /\ call.v = NInt(1)) =>
               (ret.r = 255 /\ ret.g = 255 /\ ret.b = 255)
        /\ (call.h = NInt(0) /\ call.s = NInt(1) /\ call.v = NInt(1)) =>
               (ret.r = 255 /\ ret.g = 0 /\ ret.b = 0)
        /\ call.s = NInt(0) =>
               \A ch \in {ret.r, ret.g, ret.b} :
                   ch = NTrunc(NMul(call.v, NInt(255)))

(***************************************************************************)
(* Specification of RGBtoHex() and HextoRGB() as pure functions            *)
(***************************************************************************)
\* channel values tried together: one and two hex digits, digits and letters
ByteSet == {0, 1, 9, 10, 15, 16, 31, 127, 128, 160, 171, 255}
\* every value of one channel, next to two fixed other channels
HexCalls ==
    [fn : {"RGBtoHex"}, r : ByteSet, g : ByteSet, b : ByteSet]
    \cup [fn : {"RGBtoHex"}, r : 0..255, g : {7}, b : {200}]
    \cup [fn : {"RGBtoHex"}, r : {200}, g : 0..255, b : {7}]
    \cup [fn : {"RGBtoHex"}, r : {7}, g : {200}, b : 0..255]

InitHex ==
    /\ Loaded
    /\ call \in HexCalls
    /\ ret = Pending

\* hex = RGBtoHex(r, g, b); rgb = HextoRGB(hex)
CallRGBtoHex ==
    /\ call.fn = "RGBtoHex"
    /\ ret = Pending
    /\ \E hex \in {RGBtoHex(call.r, call.g, call.b)} :
           ret' = [hex |-> hex, rgb |-> HextoRGB(hex)]
    /\ UNCHANGED call
    /\ UNCHANGED uivars

NextHex == CallRGBtoHex

SpecHex == InitHex /\ [][NextHex]_vars

\* C19: for integers r, g, b in 0..255, RGBtoHex(r, g, b) is '#' followed by
\* exactly six hex digits, and HextoRGB of it is [r, g, b] again
C19_HexRoundTrip ==
    (call.fn = "RGBtoHex" /\ ret # Pending) =>
        /\ Len(ret.hex) = 7
        /\ ret.hex[1] = "#"
        /\ \A k \in 2..Len(ret.hex) : IsHexChar(ret.hex[k])
        /\ ret.rgb = <<call.r, call.g, call.b>>

C19_Witness ==
    /\ call.fn = "RGBtoHex" /\ ret # Pending
    /\ call.r = 15 /\ call.g = 16 /\ call.b = 255
    /\ ret.hex = <<"#", "0", "f", "1", "0", "f", "f">>
    /\ ret.rgb = <<15, 16, 255>>

(***************************************************************************)
(* Specification of the buttons that cycle a setting.  Each of them leads  *)
(* back to a setting it had before, so the run needs no bound on the       *)
(* number of clicks and ops stays as it is.                                *)
(***************************************************************************)
CycleButtons == {"btnExponent", "btnMode", "btnVariant", "btnColor"}

CycleClick(id) ==
    /\ \E s \in {onButtonClick(onButton(State, id))} : Becomes(id, s)
    /\ UNCHANGED ops
    /\ UNCHANGED purevars

NextCycle == \E id \in CycleButtons : CycleClick(id)

SpecCycle == Init /\ [][NextCycle]_vars

\* C20: a press of the exponent button at an exponent in 2..6 leads to the
\* next of 2, 3, 4, 5, 6 and from 6 back to 2, so that the exponent stays in
\* 2..6 however often the button is pressed
C20_ExponentCycle ==
    [][(event'.id = "btnExponent" /\ exponent \in 2..6) =>
          /\ exponent' \in 2..6
          /\ exponent' = IF exponent = 6 THEN 2 ELSE exponent + 1]_vars

\* C21: a press of the colour button leads to the next theme of the theme
\* list (the ten built-in themes and the user-painted themes registered so
\* far) and from the last one back to the first, so that repeated presses
\* visit every available theme before any theme a second time
C21_ColourCycle ==
    [][event'.id = "btnColor" => theme' = (theme + 1) % themeset]_vars

(***************************************************************************)
(* Specification of the zoom-in gesture: an unmodified mouse-down at down  *)
(* and the mouse-up at up, on canvases of several sizes.  The result is    *)
(* the pan offset and the zoom that onMouseUp assigns before it renders.   *)
(***************************************************************************)
\* largest canvas side tried
DragSide == 4
Positions(width, height) == [x : 0..width, y : 0..height]
DragCalls ==
    UNION {[fn : {"drag"}, width : {w}, height : {h},
            down : Positions(w, h), up : Positions(w, h)] :
           w \in 3..DragSide, h \in 3..DragSide}

InitDrag ==
    /\ Loaded
    /\ call \in DragCalls
    /\ ret = Pending

\* onMouseDown (lines 310 and 332 - 335), then onMouseUp (lines 367 - 379)
CallDrag ==
    /\ call.fn = "drag"
    /\ ret = Pending
    /\ LET area == [x |-> call.down.x, y |-> call.down.y, w |-> 0, h |-> 0]
           g == zoomGesture(area, call.up, call.width, call.height, zoominc)
       IN  ret' = [cOffset |-> ptoc(call.width, call.height, g.zx, g.zy,
                                    heap[cOffset], zoom, FALSE),
                   zoom |-> NMul(zoom, g.zoomf)]
    /\ UNCHANGED call
    /\ UNCHANGED uivars

NextDrag == CallDrag

SpecDrag == InitDrag /\ [][NextDrag]_vars

\* C22: after an unmodified mouse-down and a mouse-up that span a rectangle
\* of width w > 2 and height h > 2, in whatever direction, the pan offset
\* is the plane point of the centre of the rectangle and zoom is multiplied
\* by imagew/w when w > h and by imageh/h otherwise; with w <= 2 or h <= 2
\* zoom is multiplied by zoominc and the pan offset is the plane point at
\* the position of the click (where the button went down or up, or half
\* way between the two)
C22_ZoomIntoArea ==
    (call.fn = "drag" /\ ret # Pending) =>
        LET w == Abs(call.up.x - call.down.x)
            h == Abs(call.up.y - call.down.y)
            at(x, y) == ptoc(call.width, call.height, x, y, heap[cOffset],
                             zoom, FALSE)
        IN  IF w > 2 /\ h > 2
            THEN /\ ret.cOffset = at(NFrac(call.down.x + call.up.x, 2),
                                     NFrac(call.down.y + call.up.y, 2))
                 /\ ret.zoom = NMul(zoom, IF w > h THEN NFrac(call.width, w)
                                          ELSE NFrac(call.height, h))
            ELSE /\ ret.cOffset \in {at(NInt(call.down.x), NInt(call.down.y)),
                                     at(NInt(call.up.x), NInt(call.up.y)),
                                     at(NFrac(call.down.x + call.up.x, 2),
                                        NFrac(call.down.y + call.up.y, 2))}
                 /\ ret.zoom = NMul(zoom, zoominc)

\* C23: a mouse-down with Ctrl held divides zoom by zoominc and sets the pan
\* offset to the plane point under the cursor, and the mouse-up that
\* follows it changes neither zoom nor the pan offset, whatever mouse
\* events came before
C23_CtrlClickOnce ==
    [][/\ event'.id = "ctrl+mousedown" =>
             /\ zoom' = NDiv(zoom, zoominc)
             /\ heap'[cOffset'] = heap'[pinit']
       /\ (event.id = "ctrl+mousedown" /\ event'.id = "mouseup") =>
             /\ zoom' = zoom
             /\ heap'[cOffset'] = heap[cOffset]]_vars

(***************************************************************************)
(* Specification of the zoom animation: the settings panel is opened, a    *)
(* zoom and a zoom increment are applied, the animation is switched on,    *)
(* and from then on there is no input but the animation frames.  The zoom  *)
(* increments tried keep the exact value of zoom within the integers of    *)
(* the checker (1.5 only near the limit of 1e15, 2 from small zooms on).   *)
(***************************************************************************)
AnimForms ==
    {[BlankForm EXCEPT !.zoomset = z, !.zoomincset = NInt(2)] :
        z \in {NInt(0), NInt(1), NInt(3), NInt(5), NInt(1000)}}
    \cup {[BlankForm EXCEPT !.zoomset = z] :
             z \in {Norm(1, 1, 48), Norm(3, 1, 47), Norm(1, 1, 60)}}

AnimSettings ==
    /\ ops = 0
    /\ \E s \in {onButtonClick(onButton(State, "btnSettings"))} :
          Becomes("btnSettings", s)
    /\ ops' = 1
    /\ UNCHANGED purevars

AnimApply ==
    /\ ops = 1
    /\ settings
    /\ \E form \in AnimForms :
         LET s1 == doValidateSettings(State, form)
             s2 == setPalette(s1)
         IN  \E s \in {onButtonClick(s2)} : Becomes("btnApply", s)
    /\ ops' = 2
    /\ UNCHANGED purevars

AnimStart ==
    /\ ops = 2
    /\ \E s \in {onButtonClick(onButton(State, "btnZoomAnimate"))} :
          Becomes("btnZoomAnimate", s)
    /\ ops' = 3
    /\ UNCHANGED purevars

AnimFrame ==
    /\ ops = 3
    /\ \E s \in {main(State)} : Becomes("frame", s)
    /\ UNCHANGED ops
    /\ UNCHANGED purevars

NextAnim == AnimSettings \/ AnimApply \/ AnimStart \/ AnimFrame

SpecAnim == Init /\ [][NextAnim]_vars

\* C24: while the zoom animation is on, a frame with zoom < 1e15 multiplies
\* zoom by zoominc and leaves the pan offset alone, and the first frame
\* with zoom >= 1e15 switches the animation off without changing zoom;
\* with zoominc > 1 and no other input the animation eventually stops (every
\* frame that leaves it on brings zoom nearer to the limit), and it stops
\* with zoom in [1e15, 1e15 * zoominc)
C24_ZoomAnimationStops ==
    [][(event'.id = "frame" /\ zooming) =>
         /\ IF belowZoomLimit(zoom)
            THEN /\ zoom' = NMul(zoom, zoominc)
                 /\ heap'[cOffset'] = heap[cOffset]
                 /\ zooming'
            ELSE /\ zoom' = zoom
                 /\ ~zooming'
         /\ NLess(NInt(1), zoominc) =>
               /\ zooming' => NLess(zoom, zoom')
               /\ ~zooming' =>
                     /\ ~belowZoomLimit(zoom')
                     /\ belowZoomLimit(NDiv(zoom', zoominc))]_vars


\* C25: with auto-iteration enabled, after every render the iteration cap
\* maxiter is a positive integer that is at least the minimum of the mode
\* (MINITERM in Mandelbrot mode, MINITERJ in Julia mode), for every zoom
\* that the user interface can reach
C25_AutoIterFloor ==
    (autoiter /\ Len(event.renders) > 0) =>
        /\ maxiter > 0
        /\ maxiter >= (IF setmode = JULIA THEN MINITERJ ELSE MINITERM)


(***************************************************************************)
(* Specification of powi() as a loop                                       *)
(*                                                                         *)
(* complexlite.js, powi(base, n): fractal() calls it with its exponent n   *)
(* in every iteration of the path for n # 2.  Each iteration of the while  *)
(* loop is one step; ret holds the local variables res, base and n.  The   *)
(* operators & and >> convert n to a 32 bit integer.  base and res are     *)
(* fixed-point numbers in units of 1/FSCALE.                               *)
(***************************************************************************)
\* ToInt32 of a finite integer n * 2^e: its value modulo 2^32, taken from
\* -2^31 to 2^31 - 1
ToInt32(x) ==
    IF x.e = 0 THEN x.n
    ELSE IF x.e >= 32 THEN 0
    ELSE LET h == Pow2(31 - x.e)
             m == IF x.e > 1 THEN x.n % (2 * h)
                  ELSE IF x.n >= 0 THEN x.n ELSE (x.n + h) + h
             q == Pow2(x.e - 1)
         IN  IF m >= h THEN ((m - h - h) * q) * 2 ELSE (m * q) * 2

\* a >> 1 for a 32 bit integer a: the sign bit is kept
shr1(a) == (a - (a % 2)) \div 2

\* a & 1 for a 32 bit integer a
bit0(a) == a % 2

\* bases 0, 0.5, 1, 1.5 and 2
PowiBases == {0, FSCALE \div 2, FSCALE, (3 * FSCALE) \div 2, 2 * FSCALE}
\* exponents 2 .. 7, 2^31 - 1, 2^31, 3 * 2^30 and 2^32
PowiExponents ==
    {NInt(k) : k \in 2..7}
        \cup {NInt(IntMax), Norm(1, 1, 31), Norm(3, 1, 30), Norm(1, 1, 32)}

PowiCalls == [fn : {"powi"}, base : PowiBases, n : PowiExponents]

InitPowi ==
    /\ Loaded
    /\ call \in PowiCalls
    /\ ret = Pending

\* var res = 1
PowiEnter ==
    /\ call.fn = "powi"
    /\ ret = Pending
    /\ ret' = [pc |-> "while", res |-> FSCALE, base |-> call.base,
               n |-> call.n]
    /\ UNCHANGED call
    /\ UNCHANGED uivars

\* one iteration of while (n)
PowiStep ==
    /\ call.fn = "powi"
    /\ ret # Pending
    /\ ret.pc = "while"
    /\ ret.n.n # 0
    /\ LET a == ToInt32(ret.n)
       IN  ret' = [pc |-> "while",
                   res |-> IF bit0(a) = 1 THEN FMul(ret.res, ret.base)
                           ELSE ret.res,
                   base |-> FMul(ret.base, ret.base),
                   n |-> NInt(shr1(a))]
    /\ UNCHANGED call
    /\ UNCHANGED uivars

\* return res
PowiReturn ==
    /\ call.fn = "powi"
    /\ ret # Pending
    /\ ret.pc = "while"
    /\ ret.n.n = 0
    /\ ret' = [ret EXCEPT !.pc = "return"]
    /\ UNCHANGED call
    /\ UNCHANGED uivars

NextPowi == PowiEnter \/ PowiStep \/ PowiReturn

SpecPowi == InitPowi /\ [][NextPowi]_vars

\* C26: fractal() is total for every integer exponent n >= 2; in
\* particular the loop of powi(base, n) terminates for every such n.  The
\* loop condition and the next value of n depend on n alone, so the loop
\* terminates exactly if no iteration leaves n as it found it.
C26_PowiTerminates ==
    [][(ret # Pending /\ ret.pc = "while" /\ ret'.pc = "while") =>
           ret'.n # ret.n]_vars


\* C28: in every state that mouse actions and buttons reach, cOffset,
\* cJulia and pinit refer to three different Complex objects, so a set() on
\* one of them never changes the value of another
C28_NoAliasing ==
    /\ cOffset # cJulia
    /\ cOffset # pinit
    /\ cJulia # pinit


\* C29: in every reachable state, also after a Paint that fails on a slot
\* without a valid hex colour, palettes and colmaps have the same length
\* and lastcolmap - STATICTHEMES is the length of colmaps
C29_RegistriesAligned ==
    /\ Len(palettes) = Len(colmaps)
    /\ lastcolmap - STATICTHEMES = Len(colmaps)


\* C30: the plane point that a mouse handler computes for a canvas position
\* is the plane point that generateImage uses for the pixel at that
\* position, for both settings of swapaxes.  An unmodified mouse-down keeps
\* its position in zoomarea and its plane point in pinit.
C30_MousePointIsPixelPoint ==
    [][event'.id = "mousedown" =>
          heap'[pinit'] = ptoc(imagew, imageh, NInt(zoomarea'.x),
                               NInt(zoomarea'.y), heap[cOffset], zoom,
                               swapaxes)]_vars

=============================================================================
